---- MODULE Spec2Model ----
(***************************************************************************)
(* Model of the scheduling engine of schedule-helper:                      *)
(*   backend/app/services/scheduler/smart_scheduler.py (SmartScheduler),   *)
(*   backend/app/services/scheduler/task_time_analyzer.py (the oracle).    *)
(*                                                                         *)
(* Time is counted in whole minutes since 00:00 of day 0; day 0 is a       *)
(* Monday, so weekday(d) = d % 7 with 0=Monday .. 6=Sunday as in Python's  *)
(* date.weekday().  A slot is a pair <<start, end>> like the code's        *)
(* (datetime, datetime) tuples.  Hour quantities of the code (float hours) *)
(* are carried in minutes; the inputs are whole minutes.                   *)
(***************************************************************************)
EXTENDS Integers, Sequences, FiniteSets, TLC

\* ------------------------------------------------------------------ bounds
MaxHorizon == 7         \* longest horizon: end_date - start_date
MaxProjects == 2        \* projects in one run
MaxAssignments == 2     \* assignments in one run
MaxHousehold == 2       \* household tasks in one run
MaxEvents == 2          \* external events in one run
MaxPoint == 3           \* time points 0..MaxPoint of the subtraction inputs
MaxFree == 2            \* free intervals in a subtraction input
MaxBlocking == 2        \* blocking intervals in a subtraction input
MaxGenEvents == 2       \* events given to the slot generator
MaxToday == 33          \* target days 0..MaxToday of the recurrence check
MaxLast == 3            \* last-scheduled days 0..MaxLast of the recurrence check
MaxPassTasks == 3       \* household tasks given to the household pass

\* ------------------------------------------------------- program constants
work_start_hour == 8
work_end_hour == 16
min_block_minutes == 30
household_buffer_minutes == 15
WorkHoursPerDay == 8
MaxBlockMinutes == 120          \* min(2.0, ...) hours of a project block
MinProjectBlockMinutes == 30    \* block_hours < 0.5 is skipped
AssignmentBlockMinutes == 120   \* timedelta(hours=2)
UrgentDays == 7
MaxAssignmentsPerDay == 2
MaxDailyPerDay == 2
MaxPeriodicPerDay == 2
MaxHouseholdPerDay == 4

\* ----------------------------------------------------------------- helpers
Min2(a, b) == IF a <= b THEN a ELSE b

\* dict.get(key, 0)
Get(d, key) == IF key \in DOMAIN d THEN d[key] ELSE 0

\* d[key] = value
Put(d, key, value) == [k \in DOMAIN d \cup {key} |-> IF k = key THEN value ELSE d[k]]

\* datetime.combine(date, time(h, m))
DT(d, h, m) == d * 1440 + h * 60 + m

\* datetime.date()
DateOf(t) == t \div 1440

\* datetime.hour
HourOf(t) == (t % 1440) \div 60

\* date.weekday(): 0=Monday .. 6=Sunday
weekday(d) == d % 7

IsWeekend(d) == weekday(d) >= 5

\* Python's stable list.sort on <<key, item>> pairs, ascending by key.
RECURSIVE InsertStable(_, _)
InsertStable(sorted, x) ==
    IF sorted = << >> THEN << x >>
    ELSE IF sorted[Len(sorted)][1] <= x[1] THEN Append(sorted, x)
    ELSE Append(InsertStable(SubSeq(sorted, 1, Len(sorted) - 1), x),
                sorted[Len(sorted)])

RECURSIVE StableSort(_)
StableSort(pairs) ==
    IF pairs = << >> THEN << >>
    ELSE InsertStable(StableSort(SubSeq(pairs, 1, Len(pairs) - 1)),
                      pairs[Len(pairs)])

\* ------------------------------------------------------ interval subtraction
\* The body of the inner loops of _remove_scheduled_blocks and
\* _generate_available_slots: one slot against one blocking interval.
SplitSlot(slot, b_start, b_end) ==
    IF b_end <= slot[1] \/ b_start >= slot[2]
    THEN << slot >>
    ELSE (IF b_start > slot[1] THEN << <<slot[1], b_start>> >> ELSE << >>)
         \o (IF b_end < slot[2] THEN << <<b_end, slot[2]>> >> ELSE << >>)

\* One iteration of the outer loop: every slot against one blocking interval.
RECURSIVE SubtractOne(_, _, _)
SubtractOne(slots, b_start, b_end) ==
    IF slots = << >> THEN << >>
    ELSE SplitSlot(Head(slots), b_start, b_end)
         \o SubtractOne(Tail(slots), b_start, b_end)

\* _remove_scheduled_blocks
RemoveScheduledBlocksKeepAll(available_slots, scheduled_blocks) == available_slots
RemoveScheduledBlocksLast(available_slots, scheduled_blocks) ==
    IF scheduled_blocks = << >> THEN available_slots
    ELSE SubtractOne(available_slots,
                     scheduled_blocks[Len(scheduled_blocks)].start_time,
                     scheduled_blocks[Len(scheduled_blocks)].end_time)
RECURSIVE RemoveScheduledBlocks(_, _)
RemoveScheduledBlocks(available_slots, scheduled_blocks) ==
    IF scheduled_blocks = << >> THEN available_slots
    ELSE RemoveScheduledBlocks(
             SubtractOne(available_slots,
                         Head(scheduled_blocks).start_time,
                         Head(scheduled_blocks).end_time),
             Tail(scheduled_blocks))

\* _get_life_necessity_blocks
GetLifeNecessityBlocksNoLunch(target_date, is_weekend) ==
    << <<DT(target_date, 7, 0),  DT(target_date, 8, 0)>>,
       <<DT(target_date, 18, 0), DT(target_date, 19, 0)>>,
       <<DT(target_date, 21, 0), DT(target_date, 23, 59)>> >>
GetLifeNecessityBlocks(target_date, is_weekend) ==
    << <<DT(target_date, 7, 0),  DT(target_date, 8, 0)>>,
       <<DT(target_date, 12, 0), DT(target_date, 13, 0)>>,
       <<DT(target_date, 18, 0), DT(target_date, 19, 0)>>,
       <<DT(target_date, 21, 0), DT(target_date, 23, 59)>> >>

\* _get_events_for_day
GetEventsForDay(events, target_date) ==
    SelectSeq(events, LAMBDA e : DateOf(e.start_time) = target_date)

\* the base interval of _generate_available_slots
BaseSlotsNextDay(target_date, is_weekend, work_hours_only) ==
    IF is_weekend
    THEN << <<DT(target_date + 1, 9, 0), DT(target_date + 1, 21, 0)>> >>
    ELSE IF work_hours_only
    THEN << <<DT(target_date + 1, work_start_hour, 0),
              DT(target_date + 1, work_end_hour, 0)>> >>
    ELSE << <<DT(target_date + 1, work_end_hour, 0), DT(target_date + 1, 21, 0)>> >>
BaseSlotsPersonalOnly(target_date, is_weekend, work_hours_only) ==
    IF is_weekend
    THEN << <<DT(target_date, 9, 0), DT(target_date, 21, 0)>> >>
    ELSE << <<DT(target_date, work_end_hour, 0), DT(target_date, 21, 0)>> >>
BaseSlots(target_date, is_weekend, work_hours_only) ==
    IF is_weekend
    THEN << <<DT(target_date, 9, 0), DT(target_date, 21, 0)>> >>
    ELSE IF work_hours_only
    THEN << <<DT(target_date, work_start_hour, 0),
              DT(target_date, work_end_hour, 0)>> >>
    ELSE << <<DT(target_date, work_end_hour, 0), DT(target_date, 21, 0)>> >>

RECURSIVE SubtractPairs(_, _)
SubtractPairs(slots, pairs) ==
    IF pairs = << >> THEN slots
    ELSE SubtractPairs(SubtractOne(slots, Head(pairs)[1], Head(pairs)[2]),
                       Tail(pairs))

SubtractEventsNone(slots, events) == slots
RECURSIVE SubtractEvents(_, _)
SubtractEvents(slots, events) ==
    IF events = << >> THEN slots
    ELSE SubtractEvents(
             SubtractOne(slots, Head(events).start_time, Head(events).end_time),
             Tail(events))

\* the final filter of _generate_available_slots
FilterMinDurationNone(slots) == slots
FilterMinDuration(slots) ==
    SelectSeq(slots, LAMBDA s : (s[2] - s[1]) * 60 >= min_block_minutes * 60)

\* _generate_available_slots
GenerateAvailableSlots(target_date, events, is_weekend, work_hours_only) ==
    FilterMinDuration(
        SubtractEvents(
            SubtractPairs(BaseSlots(target_date, is_weekend, work_hours_only),
                          GetLifeNecessityBlocks(target_date, is_weekend)),
            events))

\* ------------------------------------------------------------ assignments
\* `if not available_slots: break` of the assignment and project loops
NoSlotsIgnored(available_slots) == FALSE
NoSlots(available_slots) == available_slots = << >>

\* the loop of _schedule_assignments_for_day over urgent_assignments[:2];
\* st = [slots, blocks, raised]; available_slots.pop(0) on an empty list
\* raises IndexError
RECURSIVE AssignLoop(_, _)
AssignLoop(todo, st) ==
    IF todo = << >> \/ NoSlots(st.slots) THEN st
    ELSE IF st.slots = << >> THEN [st EXCEPT !.raised = TRUE]
    ELSE LET assignment == Head(todo)
             slot_start == Head(st.slots)[1]
             slot_end == Head(st.slots)[2]
             popped == Tail(st.slots)
             task_end == slot_start + AssignmentBlockMinutes
             block == [task_type |-> "assignment", task_id |-> assignment.id,
                       start_time |-> slot_start, end_time |-> task_end,
                       status |-> "scheduled"]
         IN  IF task_end <= slot_end
             THEN AssignLoop(Tail(todo),
                      [slots |-> IF task_end < slot_end
                                 THEN << <<task_end, slot_end>> >> \o popped
                                 ELSE popped,
                       blocks |-> Append(st.blocks, block),
                       raised |-> FALSE])
             ELSE AssignLoop(Tail(todo), [st EXCEPT !.slots = popped])

\* sorted([a for a in assignments if (due.date() - target).days <= 7], key=due)
UrgentAssignmentsNotOverdue(assignments, target_date) ==
    LET urgent == SelectSeq(assignments,
                     LAMBDA a : /\ DateOf(a.due_date) - target_date <= UrgentDays
                                /\ DateOf(a.due_date) - target_date >= 0)
        keyed == [i \in 1..Len(urgent) |-> <<urgent[i].due_date, urgent[i]>>]
        sorted == StableSort(keyed)
    IN  [i \in 1..Len(sorted) |-> sorted[i][2]]
UrgentAssignmentsUnsorted(assignments, target_date) ==
    SelectSeq(assignments, LAMBDA a : DateOf(a.due_date) - target_date <= UrgentDays)
UrgentAssignments(assignments, target_date) ==
    LET urgent == SelectSeq(assignments,
                     LAMBDA a : DateOf(a.due_date) - target_date <= UrgentDays)
        keyed == [i \in 1..Len(urgent) |-> <<urgent[i].due_date, urgent[i]>>]
        sorted == StableSort(keyed)
    IN  [i \in 1..Len(sorted) |-> sorted[i][2]]

\* _schedule_assignments_for_day; returns the blocks and the (mutated) slot list
ScheduleAssignmentsForDayOne(assignments, target_date, available_slots) ==
    LET urgent == UrgentAssignments(assignments, target_date)
    IN  AssignLoop(SubSeq(urgent, 1, Min2(1, Len(urgent))),
                   [slots |-> available_slots, blocks |-> << >>, raised |-> FALSE])
ScheduleAssignmentsForDayNoLimit(assignments, target_date, available_slots) ==
    AssignLoop(UrgentAssignments(assignments, target_date),
               [slots |-> available_slots, blocks |-> << >>, raised |-> FALSE])
ScheduleAssignmentsForDay(assignments, target_date, available_slots) ==
    LET urgent == UrgentAssignments(assignments, target_date)
    IN  AssignLoop(SubSeq(urgent, 1, Min2(MaxAssignmentsPerDay, Len(urgent))),
                   [slots |-> available_slots, blocks |-> << >>, raised |-> FALSE])

\* --------------------------------------------------------------- projects
\* _calculate_project_monthly_allocations: 8 hours per weekday of the horizon
TotalWorkMinutesEveryDay(current, last) == (last + 1 - current) * WorkHoursPerDay * 60
RECURSIVE TotalWorkMinutes(_, _)
TotalWorkMinutes(current, last) ==
    IF current > last THEN 0
    ELSE (IF weekday(current) < 5 THEN WorkHoursPerDay * 60 ELSE 0)
         + TotalWorkMinutes(current + 1, last)

CalculateProjectMonthlyAllocations(projs, first, last) ==
    LET total_work == TotalWorkMinutes(first, last)
        ids == {projs[i].id : i \in 1..Len(projs)}
        proj(id) == projs[CHOOSE i \in 1..Len(projs) :
                           projs[i].id = id /\ \A j \in (i+1)..Len(projs) : projs[j].id # id]
    IN  [id \in ids |->
            Min2((proj(id).allocation_percentage * total_work) \div 100,
                 proj(id).total_hours_allocated - proj(id).hours_used)]

\* block_hours = min(2.0, slot_duration_hours, hours_remaining, deficit)
BlockMinutesNoCap(slot_minutes, hours_remaining, deficit) ==
    Min2(slot_minutes, Min2(hours_remaining, deficit))
BlockMinutes(slot_minutes, hours_remaining, deficit) ==
    Min2(Min2(MaxBlockMinutes, slot_minutes), Min2(hours_remaining, deficit))

\* block_hours < 0.5: the project is skipped and the slot put back
SkipBlockNonPositive(block_minutes) == block_minutes <= 0
SkipBlock(block_minutes) == block_minutes < MinProjectBlockMinutes

\* project_hours_scheduled[id] += block_hours
AddScheduledLost(hours_scheduled, id, block_minutes) == hours_scheduled
AddScheduled(hours_scheduled, id, block_minutes) ==
    Put(hours_scheduled, id, Get(hours_scheduled, id) + block_minutes)

\* projects_with_deficit, sorted by deficit descending (stable)
ProjectsWithDeficitUnsorted(projs, monthly_hours, hours_scheduled) ==
    LET deficit(p) == Get(monthly_hours, p.id) - Get(hours_scheduled, p.id)
        cand == SelectSeq(projs,
                   LAMBDA p : deficit(p) > 0
                              /\ p.total_hours_allocated - p.hours_used > 0)
    IN  [i \in 1..Len(cand) |-> <<0 - deficit(cand[i]), cand[i]>>]
ProjectsWithDeficit(projs, monthly_hours, hours_scheduled) ==
    LET deficit(p) == Get(monthly_hours, p.id) - Get(hours_scheduled, p.id)
        cand == SelectSeq(projs,
                   LAMBDA p : deficit(p) > 0
                              /\ p.total_hours_allocated - p.hours_used > 0)
        keyed == [i \in 1..Len(cand) |-> <<0 - deficit(cand[i]), cand[i]>>]
    IN  StableSort(keyed)

\* the loop of _schedule_projects_for_day; todo holds <<-deficit, project>>;
\* st = [slots, blocks, hours, raised]
RECURSIVE ProjectLoop(_, _)
ProjectLoop(todo, st) ==
    IF todo = << >> \/ NoSlots(st.slots) THEN st
    ELSE IF st.slots = << >> THEN [st EXCEPT !.raised = TRUE]
    ELSE LET deficit == 0 - Head(todo)[1]
             project == Head(todo)[2]
             slot_start == Head(st.slots)[1]
             slot_end == Head(st.slots)[2]
             popped == Tail(st.slots)
             hours_remaining == project.total_hours_allocated - project.hours_used
             block_minutes == BlockMinutes(slot_end - slot_start, hours_remaining, deficit)
             task_end == slot_start + block_minutes
             block == [task_type |-> "project", task_id |-> project.id,
                       start_time |-> slot_start, end_time |-> task_end,
                       status |-> "scheduled"]
         IN  IF SkipBlock(block_minutes)
             THEN ProjectLoop(Tail(todo), st)
             ELSE ProjectLoop(Tail(todo),
                      [slots |-> IF slot_end - task_end >= min_block_minutes
                                 THEN << <<task_end, slot_end>> >> \o popped
                                 ELSE popped,
                       blocks |-> Append(st.blocks, block),
                       hours |-> AddScheduled(st.hours, project.id, block_minutes),
                       raised |-> FALSE])

\* _schedule_projects_for_day; returns blocks, mutated slots, updated tracking
ScheduleProjectsForDay(projs, target_date, available_slots, monthly_hours, hours_scheduled) ==
    ProjectLoop(ProjectsWithDeficit(projs, monthly_hours, hours_scheduled),
                [slots |-> available_slots, blocks |-> << >>, hours |-> hours_scheduled,
                 raised |-> FALSE])

\* -------------------------------------------------------------- household
\* the recurrence thresholds of _should_schedule_task_today
RecurrenceThresholdDaily(recurrence) ==
    CASE recurrence = "biweekly" -> 14
      [] recurrence = "monthly" -> 30
      [] OTHER -> 1
RecurrenceThreshold(recurrence) ==
    CASE recurrence = "daily" -> 1
      [] recurrence = "weekly" -> 7
      [] recurrence = "biweekly" -> 14
      [] recurrence = "monthly" -> 30
      [] OTHER -> 7

\* _should_schedule_task_today
ShouldScheduleTaskTodayAlways(task, target_date, last_scheduled) == TRUE
ShouldScheduleTaskTodayAfter(task, target_date, last_scheduled) ==
    IF task.id \notin DOMAIN last_scheduled THEN TRUE
    ELSE target_date - last_scheduled[task.id] > RecurrenceThreshold(task.recurrence)
ShouldScheduleTaskToday(task, target_date, last_scheduled) ==
    IF task.id \notin DOMAIN last_scheduled THEN TRUE
    ELSE target_date - last_scheduled[task.id] >= RecurrenceThreshold(task.recurrence)

\* _task_timing_matches_slot
TaskTimingMatchesSlotAny(task, slot_start, timing_cache) == TRUE
TaskTimingMatchesSlot(task, slot_start, timing_cache) ==
    IF task.id \notin DOMAIN timing_cache THEN TRUE
    ELSE ~ (HourOf(slot_start) < timing_cache[task.id].earliest_hour
            \/ HourOf(slot_start) >= timing_cache[task.id].latest_hour)

\* end_time of a household block: slot_start + estimated duration
TaskEndAtStart(slot_start, task) == slot_start
TaskEnd(slot_start, task) == slot_start + task.estimated_duration_minutes

\* _create_task_block; ok = FALSE models the None result, has_remaining =
\* FALSE the None remaining_slot.  slot_idx is 1-based here.
CreateTaskBlockNoBuffer(task, available_slots, slot_idx, target_date, timing_cache) ==
    LET none == [ok |-> FALSE]
    IN  IF slot_idx > Len(available_slots) THEN none
        ELSE LET slot_start == available_slots[slot_idx][1]
                 slot_end == available_slots[slot_idx][2]
                 task_end == TaskEnd(slot_start, task)
             IN  IF ~ TaskTimingMatchesSlot(task, slot_start, timing_cache) THEN none
                 ELSE IF task_end <= slot_end
                 THEN [ok |-> TRUE,
                       block |-> [task_type |-> "household", task_id |-> task.id,
                                  start_time |-> slot_start, end_time |-> task_end,
                                  status |-> "scheduled"],
                       has_remaining |-> slot_end - task_end >= min_block_minutes,
                       remaining_slot |-> <<task_end, slot_end>>]
                 ELSE none
CreateTaskBlock(task, available_slots, slot_idx, target_date, timing_cache) ==
    LET none == [ok |-> FALSE]
    IN  IF slot_idx > Len(available_slots) THEN none
        ELSE LET slot_start == available_slots[slot_idx][1]
                 slot_end == available_slots[slot_idx][2]
                 task_end == TaskEnd(slot_start, task)
                 slot_needed_end == task_end + household_buffer_minutes
             IN  IF ~ TaskTimingMatchesSlot(task, slot_start, timing_cache) THEN none
                 ELSE IF slot_needed_end <= slot_end
                 THEN [ok |-> TRUE,
                       block |-> [task_type |-> "household", task_id |-> task.id,
                                  start_time |-> slot_start, end_time |-> task_end,
                                  status |-> "scheduled"],
                       has_remaining |-> slot_end - slot_needed_end >= min_block_minutes,
                       remaining_slot |-> <<slot_needed_end, slot_end>>]
                 ELSE none

\* get_timing_flexibility, and list.sort(key=get_timing_flexibility)
SortByFlexibilityNone(tasks, timing_cache) == tasks
SortByFlexibility(tasks, timing_cache) ==
    LET flex(t) == IF t.id \in DOMAIN timing_cache
                   THEN timing_cache[t.id].latest_hour - timing_cache[t.id].earliest_hour
                   ELSE 24
        keyed == [i \in 1..Len(tasks) |-> <<flex(tasks[i]), tasks[i]>>]
        sorted == StableSort(keyed)
    IN  [i \in 1..Len(sorted) |-> sorted[i][2]]

\* One placement shared by both loops: the state after a successful
\* _create_task_block (block appended, slot replaced or index advanced,
\* last-scheduled date recorded).
PlacedNextSlot(st, task, r, target_date, periodic) ==
    [slots |-> st.slots,
     slot_idx |-> st.slot_idx + 1,
     blocks |-> Append(st.blocks, r.block),
     last |-> Put(st.last, task.id, target_date),
     periodic_today |-> st.periodic_today + (IF periodic THEN 1 ELSE 0)]
Placed(st, task, r, target_date, periodic) ==
    [slots |-> IF r.has_remaining
               THEN [st.slots EXCEPT ![st.slot_idx] = r.remaining_slot]
               ELSE st.slots,
     slot_idx |-> IF r.has_remaining THEN st.slot_idx ELSE st.slot_idx + 1,
     blocks |-> Append(st.blocks, r.block),
     last |-> Put(st.last, task.id, target_date),
     periodic_today |-> st.periodic_today + (IF periodic THEN 1 ELSE 0)]

\* the loop over daily_tasks
RECURSIVE DailyLoop(_, _, _, _)
DailyLoop(todo, st, target_date, timing_cache) ==
    IF todo = << >> THEN st
    ELSE LET task == Head(todo)
             r == CreateTaskBlock(task, st.slots, st.slot_idx, target_date, timing_cache)
         IN  IF ~ ShouldScheduleTaskToday(task, target_date, st.last)
             THEN DailyLoop(Tail(todo), st, target_date, timing_cache)
             ELSE IF Len(st.blocks) >= MaxDailyPerDay THEN st
             ELSE IF st.slot_idx > Len(st.slots) THEN st
             ELSE IF r.ok
             THEN DailyLoop(Tail(todo), Placed(st, task, r, target_date, FALSE),
                            target_date, timing_cache)
             ELSE DailyLoop(Tail(todo), st, target_date, timing_cache)

\* the loop over periodic_tasks (weekends only)
RECURSIVE PeriodicLoop(_, _, _, _)
PeriodicLoop(todo, st, target_date, timing_cache) ==
    IF todo = << >> THEN st
    ELSE LET task == Head(todo)
             r == CreateTaskBlock(task, st.slots, st.slot_idx, target_date, timing_cache)
         IN  IF ~ ShouldScheduleTaskToday(task, target_date, st.last)
             THEN PeriodicLoop(Tail(todo), st, target_date, timing_cache)
             ELSE IF st.periodic_today >= MaxPeriodicPerDay THEN st
             ELSE IF Len(st.blocks) >= MaxHouseholdPerDay THEN st
             ELSE IF st.slot_idx > Len(st.slots) THEN st
             ELSE IF r.ok
             THEN PeriodicLoop(Tail(todo), Placed(st, task, r, target_date, TRUE),
                               target_date, timing_cache)
             ELSE PeriodicLoop(Tail(todo), st, target_date, timing_cache)

\* _schedule_household_tasks_for_day; returns blocks, the mutated slot list
\* and the updated scheduled_household_tasks
ScheduleHouseholdTasksForDay(tasks, target_date, available_slots, is_weekend, timing_cache, last_scheduled) ==
    LET daily_tasks == SortByFlexibility(
                SelectSeq(tasks, LAMBDA t : t.recurrence = "daily"), timing_cache)
        periodic_tasks == SortByFlexibility(
                SelectSeq(tasks, LAMBDA t : t.recurrence # "daily"), timing_cache)
        st0 == [slots |-> available_slots, slot_idx |-> 1, blocks |-> << >>,
                last |-> last_scheduled, periodic_today |-> 0]
        st1 == DailyLoop(daily_tasks, st0, target_date, timing_cache)
    IN  IF is_weekend
        THEN PeriodicLoop(periodic_tasks, st1, target_date, timing_cache)
        ELSE st1

\* ----------------------------------------------------------- timing oracle
\* task_time_analyzer.py.  A response of the oracle is what _call_ollama
\* meets: a timeout, an HTTP error status, text without a JSON object, or a
\* JSON object with the fields it carries.  preferred_time is a sequence of
\* tokens, so that `"|" in preferred_time` is a test on its elements.
RequiredFields == {"preferred_time", "earliest_hour", "latest_hour", "reasoning"}

ValidTimes == { <<"morning">>, <<"afternoon">>, <<"evening">>, <<"anytime">> }

\* the record analyze_task_timing returns when the lookup fails
FallbackTiming == [preferred_time |-> <<"anytime">>, earliest_hour |-> 9, latest_hour |-> 21]

\* `"|" in preferred_time or "/" in preferred_time`
HasSeparator(preferred_time) ==
    \E i \in 1..Len(preferred_time) : preferred_time[i] \in {"|", "/"}

\* _call_ollama: httpx raises on a timeout and raise_for_status on an error status
CallOllamaRaises(response) == response.outcome \in {"timeout", "http_error"}

\* `data["earliest_hour"] > data["latest_hour"]`
HoursOutOfOrderNever(earliest_hour, latest_hour) == FALSE
HoursOutOfOrder(earliest_hour, latest_hour) == earliest_hour > latest_hour

\* _parse_timing_response: the validated record, or raised
ParseTimingResponse(response) ==
    LET raise == [raised |-> TRUE, data |-> FallbackTiming]
        data == [preferred_time |-> IF HasSeparator(response.preferred_time)
                                    THEN <<"anytime">>
                                    ELSE response.preferred_time,
                 earliest_hour |-> response.earliest_hour,
                 latest_hour |-> response.latest_hour]
    IN  IF response.outcome = "no_json" THEN raise
        ELSE IF \E f \in RequiredFields : f \notin response.fields THEN raise
        ELSE IF ~ (0 <= response.earliest_hour /\ response.earliest_hour <= 23) THEN raise
        ELSE IF ~ (0 <= response.latest_hour /\ response.latest_hour <= 23) THEN raise
        ELSE IF HoursOutOfOrder(response.earliest_hour, response.latest_hour) THEN raise
        ELSE IF data.preferred_time \notin ValidTimes THEN raise
        ELSE [raised |-> FALSE, data |-> data]

\* analyze_task_timing: `except Exception` turns every failure into the fallback
AnalyzeTaskTimingUncaught(response) ==
    IF CallOllamaRaises(response) THEN [raised |-> TRUE, timing |-> FallbackTiming]
    ELSE [raised |-> ParseTimingResponse(response).raised,
          timing |-> ParseTimingResponse(response).data]
AnalyzeTaskTiming(response) ==
    IF CallOllamaRaises(response) THEN [raised |-> FALSE, timing |-> FallbackTiming]
    ELSE IF ParseTimingResponse(response).raised
    THEN [raised |-> FALSE, timing |-> FallbackTiming]
    ELSE [raised |-> FALSE, timing |-> ParseTimingResponse(response).data]

\* `if task_id not in self.task_timing_cache`
NeedsAnalysisAlways(task_id, timing_cache) == TRUE
NeedsAnalysis(task_id, timing_cache) == task_id \notin DOMAIN timing_cache

\* the loop of generate_schedule over household_tasks that fills the cache;
\* answer[id] is the oracle's response for task id, st = [cache, calls, raised]
\* with calls[id] the number of analyze_task_timing calls made for id
RECURSIVE TimingLoop(_, _, _)
TimingLoop(todo, st, answer) ==
    IF todo = << >> \/ st.raised THEN st
    ELSE LET task_id == Head(todo).id
             r == AnalyzeTaskTiming(answer[task_id])
             called == Put(st.calls, task_id, Get(st.calls, task_id) + 1)
         IN  IF ~ NeedsAnalysis(task_id, st.cache)
             THEN TimingLoop(Tail(todo), st, answer)
             ELSE IF r.raised
             THEN [st EXCEPT !.calls = called, !.raised = TRUE]
             ELSE TimingLoop(Tail(todo),
                      [cache |-> Put(st.cache, task_id, r.timing),
                       calls |-> called, raised |-> FALSE],
                      answer)

\* ------------------------------------------------------------------ inputs
\* The records a run is given.  Hours are in minutes.
ProjectPool ==
    << [id |-> "p1", allocation_percentage |-> 25, total_hours_allocated |-> 1200,
        hours_used |-> 0, source_adapter |-> "manual"],
       [id |-> "p2", allocation_percentage |-> 50, total_hours_allocated |-> 170,
        hours_used |-> 30, source_adapter |-> "manual"],
       [id |-> "p3", allocation_percentage |-> 25, total_hours_allocated |-> 600,
        hours_used |-> 0, source_adapter |-> "document_parser"] >>

AssignmentPool ==
    << [id |-> "a1", due_date |-> DT(3, 23, 59)],
       [id |-> "a2", due_date |-> DT(14, 17, 0)] >>

HouseholdPool ==
    << [id |-> "h1", recurrence |-> "daily", estimated_duration_minutes |-> 10],
       [id |-> "h2", recurrence |-> "weekly", estimated_duration_minutes |-> 160],
       [id |-> "h3", recurrence |-> "weekly", estimated_duration_minutes |-> 45] >>

\* a weekday meeting, a weekend morning event, and an event that starts on
\* Saturday evening and ends on Sunday morning
EventPool ==
    << [start_time |-> DT(0, 10, 0), end_time |-> DT(0, 11, 0)],
       [start_time |-> DT(5, 9, 0), end_time |-> DT(5, 10, 30)],
       [start_time |-> DT(5, 20, 0), end_time |-> DT(6, 10, 0)] >>

\* Responses of the oracle.
Failure(outcome) ==
    [outcome |-> outcome, fields |-> {}, preferred_time |-> << >>,
     earliest_hour |-> 0, latest_hour |-> 0]

Json(fields, preferred_time, earliest_hour, latest_hour) ==
    [outcome |-> "json", fields |-> fields, preferred_time |-> preferred_time,
     earliest_hour |-> earliest_hour, latest_hour |-> latest_hour]

\* What the oracle answers in the runs of Spec: a timeout, or a morning window.
TimingResults ==
    { Failure("timeout"), Json(RequiredFields, <<"morning">>, 7, 14) }

\* Every kind of response: the failures, valid windows (one with
\* earliest = latest), hours out of order and out of range, a missing field,
\* an unknown preferred_time, and preferred_times with a separator.
OracleResponses ==
    TimingResults
    \cup { Failure("http_error"), Failure("no_json"),
           Json(RequiredFields, <<"evening">>, 18, 18),
           Json(RequiredFields, <<"morning">>, 14, 7),
           Json(RequiredFields, <<"morning">>, 0 - 1, 14),
           Json(RequiredFields, <<"evening">>, 18, 24),
           Json(RequiredFields \ {"reasoning"}, <<"morning">>, 7, 14),
           Json(RequiredFields, <<"night">>, 7, 14),
           Json(RequiredFields, <<"morning", "|", "afternoon">>, 7, 14),
           Json(RequiredFields, <<"morning", "/", "evening">>, 14, 7) }

\* Horizons: Monday..Friday, and Saturday..(Saturday + MaxHorizon)
Horizons == { <<0, 4>>, <<5, 5 + MaxHorizon>> }

RECURSIVE PickFrom(_, _, _)
PickFrom(pool, S, i) ==
    IF i > Len(pool) THEN << >>
    ELSE (IF i \in S THEN << pool[i] >> ELSE << >>) \o PickFrom(pool, S, i + 1)

\* the lists of at most n records of the pool, in pool order
Lists(pool, n) ==
    { PickFrom(pool, S, 1) : S \in { T \in SUBSET (1..Len(pool)) : Cardinality(T) <= n } }

\* ------------------------------------------------------------------- state
VARIABLES
    config,                       \* self.config, the UserConfig given to __init__
    projects, assignments, household_tasks, external_events,  \* arguments
    start_date, end_date,
    oracle,                       \* the oracle's response for each task id
    oracle_calls,                 \* analyze_task_timing calls made, per task id
    call_no,                      \* 1 or 2: which call of generate_schedule
    first_blocks,                 \* what the first call returned
    task_timing_cache,            \* self.task_timing_cache
    scheduled_household_tasks,    \* self.scheduled_household_tasks
    project_monthly_hours,        \* local of generate_schedule
    project_hours_scheduled,      \* local of generate_schedule (defaultdict)
    current_date,
    personal_slots, remaining_slots,
    assignment_blocks, academic_project_blocks, household_blocks,
    day_blocks,
    blocks,                       \* the list generate_schedule returns
    pc,
    sub_in, sub_out,              \* _remove_scheduled_blocks applied on its own
    gen_in, gen_out,              \* _generate_available_slots applied on its own
    adm_in, adm_out,              \* _should_schedule_task_today applied on its own
    pass_in, pass_out             \* one scheduling pass applied on its own

vars == << config, projects, assignments, household_tasks, external_events,
           start_date, end_date, oracle, oracle_calls, call_no, first_blocks,
           task_timing_cache, scheduled_household_tasks,
           project_monthly_hours, project_hours_scheduled, current_date,
           personal_slots, remaining_slots, assignment_blocks,
           academic_project_blocks, household_blocks, day_blocks, blocks, pc,
           sub_in, sub_out, gen_in, gen_out, adm_in, adm_out, pass_in, pass_out >>

\* the variables of the specifications of the pure functions
pure == << sub_in, sub_out, gen_in, gen_out, adm_in, adm_out, pass_in, pass_out >>

\* what a run is given: the configuration, the arguments, and the oracle
inputs == << config, projects, assignments, household_tasks, external_events,
             start_date, end_date, oracle >>

\* work_projects / academic_projects of generate_schedule
WorkProjects == SelectSeq(projects, LAMBDA p : p.source_adapter # "document_parser")
AcademicProjects == SelectSeq(projects, LAMBDA p : p.source_adapter = "document_parser")

\* values of the pure functions' variables while they are not in use
NoSubIn == [S |-> << >>, A |-> << >>, B |-> << >>]
NoSubOut == [ab |-> << >>, ba |-> << >>, a_b |-> << >>, b_a |-> << >>]
NoGenIn == [target_date |-> 0, work_hours_only |-> FALSE, events |-> << >>]
NoPassIn == [target_date |-> 0, available_slots |-> << >>]
NoPassOut == [slots |-> << >>, blocks |-> << >>]
NoAdmIn == [task |-> [id |-> "t", recurrence |-> "daily"], target_date |-> 0, last_scheduled |-> << >>]

\* UserConfig records: none given, the values the engine works with, other
\* work hours, other block length and buffer, work hours out of order
NoConfig ==
    [present |-> FALSE, work_start_hour |-> 0, work_end_hour |-> 0,
     min_block_minutes |-> 0, household_buffer_minutes |-> 0]

UserConfig(start_hour, end_hour, min_block, buffer) ==
    [present |-> TRUE, work_start_hour |-> start_hour, work_end_hour |-> end_hour,
     min_block_minutes |-> min_block, household_buffer_minutes |-> buffer]

DefaultConfig == UserConfig(8, 16, 30, 15)

Configs ==
    { NoConfig, DefaultConfig, UserConfig(9, 17, 30, 15), UserConfig(8, 16, 60, 0),
      UserConfig(17, 9, 30, 15) }

\* the ids of the household tasks of a list
TaskIds(tasks) == { tasks[i].id : i \in 1..Len(tasks) }

\* the bookkeeping of the calls made on one scheduler
calls == << oracle_calls, call_no, first_blocks >>

\* list.extend
ExtendFront(list, more) == more \o list
Extend(list, more) == list \o more

\* A fresh SmartScheduler (__init__) about to run generate_schedule: empty
\* cache and tracking, nothing scheduled.
FreshScheduler ==
    /\ oracle_calls = << >>
    /\ call_no = 1
    /\ first_blocks = << >>
    /\ task_timing_cache = << >>
    /\ scheduled_household_tasks = << >>
    /\ project_monthly_hours = << >>
    /\ project_hours_scheduled = << >>
    /\ current_date = start_date
    /\ personal_slots = << >>
    /\ remaining_slots = << >>
    /\ assignment_blocks = << >>
    /\ academic_project_blocks = << >>
    /\ household_blocks = << >>
    /\ day_blocks = << >>
    /\ blocks = << >>
    /\ pc = "analyze"
    /\ sub_in = NoSubIn /\ sub_out = NoSubOut
    /\ gen_in = NoGenIn /\ gen_out = << >>
    /\ adm_in = NoAdmIn /\ adm_out = FALSE
    /\ pass_in = NoPassIn /\ pass_out = NoPassOut

Init ==
    /\ config = DefaultConfig
    /\ projects \in Lists(ProjectPool, MaxProjects)
    /\ assignments \in Lists(AssignmentPool, MaxAssignments)
    /\ household_tasks \in Lists(HouseholdPool, MaxHousehold)
    /\ external_events \in Lists(EventPool, MaxEvents)
    /\ \E h \in Horizons : start_date = h[1] /\ end_date = h[2]
    /\ oracle \in [TaskIds(household_tasks) -> TimingResults]
    /\ FreshScheduler

\* generate_schedule, lines 64-92: the oracle is asked for every task not in
\* the cache, the allocations are computed, the day loop starts.
AnalyzeTiming ==
    /\ pc = "analyze"
    /\ LET st == TimingLoop(household_tasks,
                    [cache |-> task_timing_cache, calls |-> oracle_calls,
                     raised |-> FALSE],
                    oracle)
       IN  /\ task_timing_cache' = st.cache
           /\ oracle_calls' = st.calls
           /\ pc' = IF st.raised THEN "error" ELSE "day"
    /\ project_monthly_hours' =
           CalculateProjectMonthlyAllocations(WorkProjects, start_date, end_date)
    /\ project_hours_scheduled' = << >>
    /\ blocks' = << >>
    /\ current_date' = start_date
    /\ UNCHANGED << pure, inputs, call_no, first_blocks, scheduled_household_tasks,
                    personal_slots, remaining_slots, assignment_blocks,
                    academic_project_blocks, household_blocks, day_blocks >>

\* lines 93-103: the head of the day loop
BeginDay ==
    /\ pc = "day"
    /\ current_date <= end_date
    /\ personal_slots' = GenerateAvailableSlots(current_date,
                             GetEventsForDay(external_events, current_date),
                             IsWeekend(current_date), FALSE)
    /\ day_blocks' = << >>
    /\ pc' = IF IsWeekend(current_date) THEN "we_household" ELSE "wd_assignments"
    /\ UNCHANGED << pure, inputs, calls, task_timing_cache, scheduled_household_tasks,
                    project_monthly_hours, project_hours_scheduled, current_date,
                    remaining_slots, assignment_blocks, academic_project_blocks,
                    household_blocks, blocks >>

\* lines 108-112
WeekdayAssignments ==
    /\ pc = "wd_assignments"
    /\ LET r == ScheduleAssignmentsForDay(assignments, current_date, personal_slots)
       IN  /\ assignment_blocks' = r.blocks
           /\ personal_slots' = r.slots
           /\ day_blocks' = Extend(day_blocks, r.blocks)
           /\ pc' = IF r.raised THEN "error" ELSE "wd_academic"
    /\ UNCHANGED << pure, inputs, calls, task_timing_cache, scheduled_household_tasks,
                    project_monthly_hours, project_hours_scheduled, current_date,
                    remaining_slots, academic_project_blocks, household_blocks,
                    blocks >>

\* lines 114-123
WeekdayAcademic ==
    /\ pc = "wd_academic"
    /\ LET r == ScheduleProjectsForDay(AcademicProjects, current_date,
                    RemoveScheduledBlocks(personal_slots, assignment_blocks),
                    << >>, << >>)
       IN  /\ academic_project_blocks' = r.blocks
           /\ remaining_slots' = r.slots
           /\ day_blocks' = Extend(day_blocks, r.blocks)
           /\ pc' = IF r.raised THEN "error" ELSE "wd_household"
    /\ UNCHANGED << pure, inputs, calls, task_timing_cache, scheduled_household_tasks,
                    project_monthly_hours, project_hours_scheduled, current_date,
                    personal_slots, assignment_blocks, household_blocks, blocks >>

\* lines 125-130
WeekdayHousehold ==
    /\ pc = "wd_household"
    /\ LET r == ScheduleHouseholdTasksForDay(household_tasks, current_date,
                    RemoveScheduledBlocks(remaining_slots, academic_project_blocks),
                    FALSE, task_timing_cache, scheduled_household_tasks)
       IN  /\ household_blocks' = r.blocks
           /\ remaining_slots' = r.slots
           /\ scheduled_household_tasks' = r.last
           /\ day_blocks' = Extend(day_blocks, r.blocks)
    /\ pc' = "wd_work"
    /\ UNCHANGED << pure, inputs, calls, task_timing_cache, project_monthly_hours,
                    project_hours_scheduled, current_date, personal_slots,
                    assignment_blocks, academic_project_blocks, blocks >>

\* lines 156-167 and 180-181
WeekdayWork ==
    /\ pc = "wd_work"
    /\ LET work_slots == GenerateAvailableSlots(current_date,
                             GetEventsForDay(external_events, current_date),
                             FALSE, TRUE)
           r == ScheduleProjectsForDay(WorkProjects, current_date, work_slots,
                    project_monthly_hours, project_hours_scheduled)
       IN  /\ project_hours_scheduled' = r.hours
           /\ day_blocks' = Extend(day_blocks, r.blocks)
           /\ blocks' = IF r.raised THEN blocks
                      ELSE Extend(blocks, Extend(day_blocks, r.blocks))
           /\ pc' = IF r.raised THEN "error" ELSE "day"
    /\ current_date' = current_date + 1
    /\ UNCHANGED << pure, inputs, calls, task_timing_cache, scheduled_household_tasks,
                    project_monthly_hours, personal_slots, remaining_slots,
                    assignment_blocks, academic_project_blocks, household_blocks >>

\* lines 132-136
WeekendHousehold ==
    /\ pc = "we_household"
    /\ LET r == ScheduleHouseholdTasksForDay(household_tasks, current_date,
                    personal_slots, TRUE, task_timing_cache,
                    scheduled_household_tasks)
       IN  /\ household_blocks' = r.blocks
           /\ personal_slots' = r.slots
           /\ scheduled_household_tasks' = r.last
           /\ day_blocks' = Extend(day_blocks, r.blocks)
    /\ pc' = "we_assignments"
    /\ UNCHANGED << pure, inputs, calls, task_timing_cache, project_monthly_hours,
                    project_hours_scheduled, current_date, remaining_slots,
                    assignment_blocks, academic_project_blocks, blocks >>

\* lines 138-143
WeekendAssignments ==
    /\ pc = "we_assignments"
    /\ LET r == ScheduleAssignmentsForDay(assignments, current_date,
                    RemoveScheduledBlocks(personal_slots, household_blocks))
       IN  /\ assignment_blocks' = r.blocks
           /\ remaining_slots' = r.slots
           /\ day_blocks' = Extend(day_blocks, r.blocks)
           /\ pc' = IF r.raised THEN "error" ELSE "we_academic"
    /\ UNCHANGED << pure, inputs, calls, task_timing_cache, scheduled_household_tasks,
                    project_monthly_hours, project_hours_scheduled, current_date,
                    personal_slots, academic_project_blocks, household_blocks,
                    blocks >>

\* lines 145-154
WeekendAcademic ==
    /\ pc = "we_academic"
    /\ LET r == ScheduleProjectsForDay(AcademicProjects, current_date,
                    RemoveScheduledBlocks(remaining_slots, assignment_blocks),
                    << >>, << >>)
       IN  /\ academic_project_blocks' = r.blocks
           /\ remaining_slots' = r.slots
           /\ day_blocks' = Extend(day_blocks, r.blocks)
           /\ pc' = IF r.raised THEN "error" ELSE "we_work"
    /\ UNCHANGED << pure, inputs, calls, task_timing_cache, scheduled_household_tasks,
                    project_monthly_hours, project_hours_scheduled, current_date,
                    personal_slots, assignment_blocks, household_blocks, blocks >>

\* lines 168-181
WeekendWork ==
    /\ pc = "we_work"
    /\ LET r == ScheduleProjectsForDay(WorkProjects, current_date,
                    RemoveScheduledBlocks(remaining_slots, academic_project_blocks),
                    project_monthly_hours, project_hours_scheduled)
       IN  /\ project_hours_scheduled' = r.hours
           /\ remaining_slots' = r.slots
           /\ day_blocks' = Extend(day_blocks, r.blocks)
           /\ blocks' = IF r.raised THEN blocks
                      ELSE Extend(blocks, Extend(day_blocks, r.blocks))
           /\ pc' = IF r.raised THEN "error" ELSE "day"
    /\ current_date' = current_date + 1
    /\ UNCHANGED << pure, inputs, calls, task_timing_cache, scheduled_household_tasks,
                    project_monthly_hours, personal_slots, assignment_blocks,
                    academic_project_blocks, household_blocks >>

\* line 183: the loop condition fails, blocks is returned
Return ==
    /\ pc = "day"
    /\ current_date > end_date
    /\ pc' = "done"
    /\ UNCHANGED << pure, inputs, calls, task_timing_cache, scheduled_household_tasks,
                    project_monthly_hours, project_hours_scheduled, current_date,
                    personal_slots, remaining_slots, assignment_blocks,
                    academic_project_blocks, household_blocks, day_blocks, blocks >>

Next ==
    \/ AnalyzeTiming
    \/ BeginDay
    \/ WeekdayAssignments
    \/ WeekdayAcademic
    \/ WeekdayHousehold
    \/ WeekdayWork
    \/ WeekendHousehold
    \/ WeekendAssignments
    \/ WeekendAcademic
    \/ WeekendWork
    \/ Return

Spec == Init /\ [][Next]_vars

\* ------------------------------------------------ runs for every oracle response
\* One run of generate_schedule over household tasks only, the oracle
\* answering with any response of OracleResponses.
InitOracle ==
    /\ config = DefaultConfig
    /\ projects = << >>
    /\ assignments = << >>
    /\ household_tasks \in Lists(HouseholdPool, MaxHousehold)
    /\ external_events = << >>
    /\ \E h \in Horizons : start_date = h[1] /\ end_date = h[2]
    /\ oracle \in [TaskIds(household_tasks) -> OracleResponses]
    /\ FreshScheduler

SpecOracle == InitOracle /\ [][Next]_vars

\* ------------------------------------------- two calls on the same scheduler
\* generate_schedule is called a second time on the same SmartScheduler with
\* the same arguments: the locals start afresh, the attributes of the
\* instance (task_timing_cache, scheduled_household_tasks) stay.
SecondCall ==
    /\ pc = "done"
    /\ call_no = 1
    /\ call_no' = 2
    /\ first_blocks' = blocks
    /\ project_monthly_hours' = << >>
    /\ project_hours_scheduled' = << >>
    /\ current_date' = start_date
    /\ personal_slots' = << >>
    /\ remaining_slots' = << >>
    /\ assignment_blocks' = << >>
    /\ academic_project_blocks' = << >>
    /\ household_blocks' = << >>
    /\ day_blocks' = << >>
    /\ blocks' = << >>
    /\ pc' = "analyze"
    /\ UNCHANGED << pure, inputs, oracle_calls, task_timing_cache,
                    scheduled_household_tasks >>

\* an event that takes the whole of Tuesday, 08:00 to 21:00
BusyDayPool == << [start_time |-> DT(1, 8, 0), end_time |-> DT(1, 21, 0)] >>

\* a scheduler constructed with any of the configurations; the calendar is
\* empty or holds the whole-day event
InitSession ==
    /\ config \in Configs
    /\ projects \in Lists(ProjectPool, 1)
    /\ assignments \in Lists(AssignmentPool, 1)
    /\ household_tasks \in Lists(HouseholdPool, MaxHousehold)
    /\ external_events \in Lists(BusyDayPool, 1)
    /\ \E h \in Horizons : start_date = h[1] /\ end_date = h[2]
    /\ oracle \in [TaskIds(household_tasks) -> TimingResults]
    /\ FreshScheduler

NextSession == Next \/ SecondCall

SpecSession == InitSession /\ [][NextSession]_vars

\* ------------------------------------------- the pure functions on their own
\* No scheduler run: the run's variables stay at their initial values.
Idle ==
    /\ config = DefaultConfig /\ oracle = << >> /\ oracle_calls = << >>
    /\ call_no = 1 /\ first_blocks = << >>
    /\ projects = << >> /\ assignments = << >> /\ household_tasks = << >>
    /\ external_events = << >> /\ start_date = 0 /\ end_date = 0
    /\ task_timing_cache = << >> /\ scheduled_household_tasks = << >>
    /\ project_monthly_hours = << >> /\ project_hours_scheduled = << >>
    /\ current_date = 0 /\ personal_slots = << >> /\ remaining_slots = << >>
    /\ assignment_blocks = << >> /\ academic_project_blocks = << >>
    /\ household_blocks = << >> /\ day_blocks = << >> /\ blocks = << >>

run == << inputs, calls, task_timing_cache, scheduled_household_tasks,
          project_monthly_hours, project_hours_scheduled, current_date,
          personal_slots, remaining_slots, assignment_blocks,
          academic_project_blocks, household_blocks, day_blocks, blocks >>

\* intervals with start < end over the points 0..MaxPoint; A has up to
\* MaxBlocking blocks, B up to one, so A and B together up to MaxBlocking + 1
Intervals == { iv \in (0..MaxPoint) \X (0..MaxPoint) : iv[1] < iv[2] }

AsBlock(iv) == [start_time |-> iv[1], end_time |-> iv[2]]

\* lists of at most n elements of set S
RECURSIVE ListsOver(_, _)
ListsOver(S, n) ==
    IF n = 0 THEN { << >> }
    ELSE ListsOver(S, n - 1)
         \cup { Append(l, x) : l \in { m \in ListsOver(S, n - 1) : Len(m) = n - 1 },
                               x \in S }

\* slot lists as the engine holds them: chronological, non-overlapping
FreeLists ==
    { l \in ListsOver(Intervals, MaxFree) :
        \A i \in 1..(Len(l) - 1) : l[i][2] <= l[i + 1][1] }

BlockLists == { [i \in 1..Len(l) |-> AsBlock(l[i])] : l \in ListsOver(Intervals, MaxBlocking) }

InitSub ==
    /\ Idle
    /\ sub_in \in [S : FreeLists, A : BlockLists,
                   B : { b \in BlockLists : Len(b) <= 1 }]
    /\ sub_out = NoSubOut
    /\ gen_in = NoGenIn /\ gen_out = << >>
    /\ adm_in = NoAdmIn /\ adm_out = FALSE
    /\ pass_in = NoPassIn /\ pass_out = NoPassOut
    /\ pc = "subtract"

\* subtract A then B, B then A, and A and B together in both orders
ApplySubtract ==
    /\ pc = "subtract"
    /\ pc' = "subtracted"
    /\ sub_out' =
         [ab |-> RemoveScheduledBlocks(RemoveScheduledBlocks(sub_in.S, sub_in.A), sub_in.B),
          ba |-> RemoveScheduledBlocks(RemoveScheduledBlocks(sub_in.S, sub_in.B), sub_in.A),
          a_b |-> RemoveScheduledBlocks(sub_in.S, sub_in.A \o sub_in.B),
          b_a |-> RemoveScheduledBlocks(sub_in.S, sub_in.B \o sub_in.A)]
    /\ UNCHANGED << run, sub_in, gen_in, gen_out, adm_in, adm_out, pass_in, pass_out >>

NextSub == ApplySubtract

SpecSub == InitSub /\ [][NextSub]_vars

\* Events of a day for the slot generator (the result of _get_events_for_day):
\* they start on the day and end on it or on the next day, with
\* start <= end as calendar events have; zero-length events occur.
GenEventStarts == { 8 * 60, 10 * 60, 11 * 60 + 45, 15 * 60 + 50, 20 * 60 + 45 }
GenEventLengths == { 0, 20, 60, 1440 }
GenEvents(d) ==
    { [start_time |-> d * 1440 + s, end_time |-> d * 1440 + s + len] :
        s \in GenEventStarts, len \in GenEventLengths }

InitGen ==
    /\ Idle
    /\ \E d \in 0..6 :
         gen_in \in [target_date : {d}, work_hours_only : BOOLEAN,
                     events : ListsOver(GenEvents(d), MaxGenEvents)]
    /\ gen_out = << >>
    /\ sub_in = NoSubIn /\ sub_out = NoSubOut
    /\ adm_in = NoAdmIn /\ adm_out = FALSE
    /\ pass_in = NoPassIn /\ pass_out = NoPassOut
    /\ pc = "generate"

GenerateSlots ==
    /\ pc = "generate"
    /\ pc' = "generated"
    /\ gen_out' = GenerateAvailableSlots(gen_in.target_date, gen_in.events,
                      IsWeekend(gen_in.target_date), gen_in.work_hours_only)
    /\ UNCHANGED << run, sub_in, sub_out, gen_in, adm_in, adm_out, pass_in, pass_out >>

NextGen == GenerateSlots

SpecGen == InitGen /\ [][NextGen]_vars

\* _should_schedule_task_today on its own: a task of any recurrence value
\* (the enumeration's, and one it does not know), a target day, and a
\* tracking dict that holds the task, another task only, or nothing
Recurrences == { "none", "daily", "weekly", "biweekly", "monthly", "custom", "yearly" }

LastScheduledDicts ==
    { << >> } \cup { [id \in {"t"} |-> d] : d \in 0..MaxLast }
              \cup { [id \in {"u"} |-> d] : d \in 0..0 }

InitAdmit ==
    /\ Idle
    /\ adm_in \in [task : { [id |-> "t", recurrence |-> r] : r \in Recurrences },
                    target_date : 0..MaxToday,
                    last_scheduled : LastScheduledDicts]
    /\ adm_out = FALSE
    /\ sub_in = NoSubIn /\ sub_out = NoSubOut
    /\ gen_in = NoGenIn /\ gen_out = << >>
    /\ pass_in = NoPassIn /\ pass_out = NoPassOut
    /\ pc = "admit"

ShouldSchedule ==
    /\ pc = "admit"
    /\ pc' = "admitted"
    /\ adm_out' = ShouldScheduleTaskToday(adm_in.task, adm_in.target_date,
                                          adm_in.last_scheduled)
    /\ UNCHANGED << run, sub_in, sub_out, gen_in, gen_out, adm_in, pass_in, pass_out >>

NextAdmit == ShouldSchedule

SpecAdmit == InitAdmit /\ [][NextAdmit]_vars

\* -------------------------------------------- runs over other date ranges
\* generate_schedule over ranges that Spec leaves out: start_date after
\* end_date, a weekend alone, and a Saturday to the Saturday after it or
\* beyond.
RangeHorizons == { <<9, 5>>, <<6, 5>>, <<5, 6>>, <<5, 5 + MaxHorizon>> }

\* assignments with their estimated_hours (in minutes); the second is due
\* on the Sunday of the first weekend and overdue from then on
RangeAssignmentPool ==
    << [id |-> "r1", due_date |-> DT(13, 17, 0), estimated_hours |-> 240],
       [id |-> "r2", due_date |-> DT(6, 12, 0), estimated_hours |-> 120] >>

\* a task with recurrence "none" and a weekly task of 160 minutes
RangeHouseholdPool ==
    << [id |-> "n1", recurrence |-> "none", estimated_duration_minutes |-> 30],
       [id |-> "h2", recurrence |-> "weekly", estimated_duration_minutes |-> 160] >>

InitRange ==
    /\ config = DefaultConfig
    /\ projects \in Lists(ProjectPool, MaxProjects)
    /\ assignments \in Lists(RangeAssignmentPool, 2)
    /\ household_tasks \in Lists(RangeHouseholdPool, 1)
    /\ external_events = << >>
    /\ \E h \in RangeHorizons : start_date = h[1] /\ end_date = h[2]
    /\ oracle \in [TaskIds(household_tasks) -> TimingResults]
    /\ FreshScheduler

SpecRange == InitRange /\ [][Next]_vars

\* ------------------------------------------------ the passes on their own
\* the other pure functions are not in use
NoPure ==
    /\ sub_in = NoSubIn /\ sub_out = NoSubOut
    /\ gen_in = NoGenIn /\ gen_out = << >>
    /\ adm_in = NoAdmIn /\ adm_out = FALSE

\* _schedule_household_tasks_for_day on its own.  The tasks: three daily
\* ones, two weekly ones, a monthly one.
HousePool ==
    << [id |-> "d1", recurrence |-> "daily", estimated_duration_minutes |-> 10],
       [id |-> "d2", recurrence |-> "daily", estimated_duration_minutes |-> 45],
       [id |-> "d3", recurrence |-> "daily", estimated_duration_minutes |-> 30],
       [id |-> "w1", recurrence |-> "weekly", estimated_duration_minutes |-> 160],
       [id |-> "w2", recurrence |-> "weekly", estimated_duration_minutes |-> 45],
       [id |-> "m1", recurrence |-> "monthly", estimated_duration_minutes |-> 30] >>

\* cached timings: the fallback, a morning window, an evening window
HouseTimings ==
    { FallbackTiming,
      [preferred_time |-> <<"morning">>, earliest_hour |-> 7, latest_hour |-> 14],
      [preferred_time |-> <<"evening">>, earliest_hour |-> 18, latest_hour |-> 21] }

\* slot lists the pass is given on day d: what the generator returns for a
\* day without events, and what is left of it after earlier blocks (one of
\* them a slot of 50 minutes)
HouseSlots(d) ==
    IF IsWeekend(d)
    THEN { GenerateAvailableSlots(d, << >>, TRUE, FALSE),
           << <<DT(d, 13, 0), DT(d, 18, 0)>>, <<DT(d, 19, 0), DT(d, 21, 0)>> >>,
           << <<DT(d, 19, 0), DT(d, 21, 0)>> >> }
    ELSE { GenerateAvailableSlots(d, << >>, FALSE, FALSE),
           << <<DT(d, 19, 0), DT(d, 21, 0)>> >>,
           << <<DT(d, 17, 10), DT(d, 18, 0)>>, <<DT(d, 19, 0), DT(d, 21, 0)>> >>,
           << >> }

\* scheduled_household_tasks before the pass: nothing, every task the day
\* before, every task a week before
HouseLast(tasks, d) ==
    { << >>, [id \in TaskIds(tasks) |-> d - 1], [id \in TaskIds(tasks) |-> d - 7] }

InitHouse ==
    /\ Idle
    /\ NoPure
    /\ \E tasks \in Lists(HousePool, MaxPassTasks), d \in {7, 12} :
         pass_in \in [tasks : {tasks}, target_date : {d},
                      available_slots : HouseSlots(d),
                      timing_cache : [TaskIds(tasks) -> HouseTimings],
                      last_scheduled : HouseLast(tasks, d)]
    /\ pass_out = NoPassOut
    /\ pc = "house"

ScheduleHousehold ==
    /\ pc = "house"
    /\ pc' = "housed"
    /\ pass_out' = ScheduleHouseholdTasksForDay(pass_in.tasks, pass_in.target_date,
                        pass_in.available_slots, IsWeekend(pass_in.target_date),
                        pass_in.timing_cache, pass_in.last_scheduled)
    /\ UNCHANGED << run, sub_in, sub_out, gen_in, gen_out, adm_in, adm_out, pass_in >>

NextHouse == ScheduleHousehold

SpecHouse == InitHouse /\ [][NextHouse]_vars

\* _schedule_projects_for_day on its own.  The projects: a large one, two
\* with the same allocation, one with 20 minutes left, an exhausted one.
PassProjectPool ==
    << [id |-> "q1", allocation_percentage |-> 25, total_hours_allocated |-> 6000,
        hours_used |-> 0, source_adapter |-> "manual"],
       [id |-> "q2", allocation_percentage |-> 50, total_hours_allocated |-> 6000,
        hours_used |-> 0, source_adapter |-> "manual"],
       [id |-> "q3", allocation_percentage |-> 25, total_hours_allocated |-> 6000,
        hours_used |-> 600, source_adapter |-> "manual"],
       [id |-> "q4", allocation_percentage |-> 50, total_hours_allocated |-> 170,
        hours_used |-> 150, source_adapter |-> "manual"],
       [id |-> "q5", allocation_percentage |-> 25, total_hours_allocated |-> 100,
        hours_used |-> 100, source_adapter |-> "manual"] >>

\* the targets the pass is given: those of a Monday..Friday horizon (the
\* work pass), or none (the academic pass)
PassMonthlyHours(projs) == { CalculateProjectMonthlyAllocations(projs, 0, 4), << >> }

\* project_hours_scheduled before the pass: nothing, two hours each, every
\* project 20 or 45 minutes short of its target, every project at its target
PassHoursScheduled(projs, monthly_hours) ==
    { << >>,
      [id \in TaskIds(projs) |-> 120],
      [id \in TaskIds(projs) |-> IF Get(monthly_hours, id) >= 20 THEN Get(monthly_hours, id) - 20 ELSE 0],
      [id \in TaskIds(projs) |-> IF Get(monthly_hours, id) >= 45 THEN Get(monthly_hours, id) - 45 ELSE 0],
      [id \in TaskIds(projs) |-> Get(monthly_hours, id)] }

\* slot lists the pass is given on Monday: the work-hours slots of a day
\* without events, a list with a 20-minute slot at its head, one whose first
\* slot leaves 15 minutes after a 2-hour block, one slot of 45 minutes, none
PassProjectSlots ==
    { GenerateAvailableSlots(0, << >>, FALSE, TRUE),
      << <<DT(0, 11, 40), DT(0, 12, 0)>>, <<DT(0, 13, 0), DT(0, 16, 0)>> >>,
      << <<DT(0, 8, 0), DT(0, 10, 15)>>, <<DT(0, 13, 0), DT(0, 16, 0)>> >>,
      << <<DT(0, 15, 15), DT(0, 16, 0)>> >>,
      << >> }

InitProj ==
    /\ Idle
    /\ NoPure
    /\ \E projs \in Lists(PassProjectPool, MaxPassTasks) :
         \E monthly_hours \in PassMonthlyHours(projs) :
             pass_in \in [projs : {projs}, target_date : {0},
                          available_slots : PassProjectSlots,
                          monthly_hours : {monthly_hours},
                          hours_scheduled : PassHoursScheduled(projs, monthly_hours)]
    /\ pass_out = NoPassOut
    /\ pc = "proj"

ScheduleProjects ==
    /\ pc = "proj"
    /\ pc' = "projected"
    /\ pass_out' = ScheduleProjectsForDay(pass_in.projs, pass_in.target_date,
                        pass_in.available_slots, pass_in.monthly_hours,
                        pass_in.hours_scheduled)
    /\ UNCHANGED << run, sub_in, sub_out, gen_in, gen_out, adm_in, adm_out, pass_in >>

NextProj == ScheduleProjects

SpecProj == InitProj /\ [][NextProj]_vars

\* _schedule_assignments_for_day on its own, on days 7 (Monday) and 8.  The
\* assignments: due on day 10, due on the morning of day 7 (overdue on day
\* 8), due on day 6 (overdue), due on day 15 (8 or 7 days ahead), due on
\* day 14 (7 or 6 days ahead), and one due at the same moment as the first.
PassAssignmentPool ==
    << [id |-> "b1", due_date |-> DT(10, 23, 59)],
       [id |-> "b2", due_date |-> DT(7, 9, 0)],
       [id |-> "b3", due_date |-> DT(6, 12, 0)],
       [id |-> "b4", due_date |-> DT(15, 17, 0)],
       [id |-> "b5", due_date |-> DT(14, 23, 59)],
       [id |-> "b6", due_date |-> DT(10, 23, 59)] >>

\* slot lists the pass is given on day d: the personal slots of a weekday
\* without events, one slot of exactly two hours, a 90-minute slot before a
\* two-hour one, a five-hour and a four-hour slot before a two-hour one, none
PassAssignmentSlots(d) ==
    { GenerateAvailableSlots(d, << >>, FALSE, FALSE),
      << <<DT(d, 19, 0), DT(d, 21, 0)>> >>,
      << <<DT(d, 16, 0), DT(d, 17, 30)>>, <<DT(d, 19, 0), DT(d, 21, 0)>> >>,
      << <<DT(d, 13, 0), DT(d, 18, 0)>>, <<DT(d, 19, 0), DT(d, 21, 0)>> >>,
      << <<DT(d, 13, 0), DT(d, 17, 0)>>, <<DT(d, 19, 0), DT(d, 21, 0)>> >>,
      << >> }

InitAssign ==
    /\ Idle
    /\ NoPure
    /\ \E d \in {7, 8} :
         pass_in \in [assignments : Lists(PassAssignmentPool, MaxPassTasks),
                      target_date : {d},
                      available_slots : PassAssignmentSlots(d)]
    /\ pass_out = NoPassOut
    /\ pc = "assign"

ScheduleAssignments ==
    /\ pc = "assign"
    /\ pc' = "assigned"
    /\ pass_out' = ScheduleAssignmentsForDay(pass_in.assignments, pass_in.target_date,
                        pass_in.available_slots)
    /\ UNCHANGED << run, sub_in, sub_out, gen_in, gen_out, adm_in, adm_out, pass_in >>

NextAssign == ScheduleAssignments

SpecAssign == InitAssign /\ [][NextAssign]_vars

\* ================================================================== claims
\* Between two days of the run and at its end, when `blocks` holds every
\* block produced so far (line 180 has run for each finished day).
DayEnded == pc \in {"day", "done"}

Overlap(s1, e1, s2, e2) == s1 < e2 /\ s2 < e1

Duration(b) == b.end_time - b.start_time

HasType(seq, type) == \E i \in 1..Len(seq) : seq[i].task_type = type

\* C1: any two distinct blocks produced by a run have non-overlapping
\* [start, end) intervals, whichever passes produced them, on weekdays and
\* weekends alike.
C1_BlocksDisjoint ==
    DayEnded =>
    \A i, j \in 1..Len(blocks) :
        i < j => ~ Overlap(blocks[i].start_time, blocks[i].end_time,
                           blocks[j].start_time, blocks[j].end_time)

\* a finished run with a weekend day carrying a household, an assignment and
\* a project block, and a weekday carrying an assignment and a project block
C1_Witness ==
    /\ pc = "done"
    /\ \E d \in start_date..end_date :
         /\ IsWeekend(d)
         /\ \A type \in {"household", "assignment", "project"} :
              \E i \in 1..Len(blocks) :
                 blocks[i].task_type = type /\ DateOf(blocks[i].start_time) = d
    /\ \E d \in start_date..end_date :
         /\ ~ IsWeekend(d)
         /\ \A type \in {"assignment", "project"} :
              \E i \in 1..Len(blocks) :
                 blocks[i].task_type = type /\ DateOf(blocks[i].start_time) = d

\* C2: no produced block overlaps an external event of the input (events
\* with start < end), whatever dates the event starts and ends on.
C2_NoEventOverlap ==
    DayEnded =>
    \A i \in 1..Len(blocks), k \in 1..Len(external_events) :
        external_events[k].start_time < external_events[k].end_time
        => ~ Overlap(blocks[i].start_time, blocks[i].end_time,
                     external_events[k].start_time, external_events[k].end_time)

\* the life-necessity intervals of day d as the specification lists them
LifeIntervals(d) ==
    { <<d * 1440 + 7 * 60, d * 1440 + 8 * 60>>,
      <<d * 1440 + 12 * 60, d * 1440 + 13 * 60>>,
      <<d * 1440 + 18 * 60, d * 1440 + 19 * 60>>,
      <<d * 1440 + 21 * 60, d * 1440 + 23 * 60 + 59>> }

\* C3: no produced block overlaps a life-necessity interval of its day
\* (07:00-08:00, 12:00-13:00, 18:00-19:00, 21:00-23:59).
C3_NoLifeOverlap ==
    DayEnded =>
    \A i \in 1..Len(blocks) :
        \A d \in {DateOf(blocks[i].start_time), DateOf(blocks[i].end_time)} :
            \A iv \in LifeIntervals(d) :
                ~ Overlap(blocks[i].start_time, blocks[i].end_time, iv[1], iv[2])

\* a finished run with blocks that run right up to lunch, right up to
\* dinner, and from the end of dinner
C3_Witness ==
    /\ pc = "done"
    /\ \E i \in 1..Len(blocks) :
          blocks[i].end_time = DateOf(blocks[i].start_time) * 1440 + 12 * 60
    /\ \E i \in 1..Len(blocks) :
          blocks[i].end_time = DateOf(blocks[i].start_time) * 1440 + 18 * 60
    /\ \E i \in 1..Len(blocks) :
          blocks[i].start_time = DateOf(blocks[i].start_time) * 1440 + 19 * 60

\* number of Monday-to-Friday dates of the horizon
HorizonWeekdays == Cardinality({ d \in start_date..end_date : d % 7 < 5 })

\* target hours (in minutes) of a work project as the specification defines it
TargetMinutes(p) ==
    Min2((p.allocation_percentage * 8 * 60 * HorizonWeekdays) \div 100,
         p.total_hours_allocated - p.hours_used)

RECURSIVE SumProjectMinutes(_, _)
SumProjectMinutes(seq, id) ==
    IF seq = << >> THEN 0
    ELSE (IF Head(seq).task_type = "project" /\ Head(seq).task_id = id
          THEN Duration(Head(seq)) ELSE 0)
         + SumProjectMinutes(Tail(seq), id)

\* C4: the cumulative time of the blocks of a work project never exceeds its
\* target by more than 2 hours; a 25% project over 5 weekdays (target 10
\* hours) never gets an 11th hour.
C4_CapacityRespect ==
    DayEnded =>
    \A k \in 1..Len(projects) :
        projects[k].source_adapter # "document_parser" =>
            /\ SumProjectMinutes(blocks, projects[k].id)
                  <= TargetMinutes(projects[k]) + 120
            /\ (projects[k].allocation_percentage = 25 /\ HorizonWeekdays = 5
                /\ TargetMinutes(projects[k]) = 600)
               => SumProjectMinutes(blocks, projects[k].id) <= 10 * 60

\* the 25% project over Monday..Friday has received its 10 hours
C4_Witness ==
    /\ pc = "done"
    /\ start_date = 0 /\ end_date = 4
    /\ \E k \in 1..Len(projects) :
          /\ projects[k].allocation_percentage = 25
          /\ projects[k].source_adapter # "document_parser"
          /\ TargetMinutes(projects[k]) = 600
          /\ SumProjectMinutes(blocks, projects[k].id) = 600

IsWeekly(id) ==
    \E k \in 1..Len(household_tasks) :
        household_tasks[k].id = id /\ household_tasks[k].recurrence = "weekly"

\* C5: two blocks of the same weekly household task are on dates at least
\* 7 days apart.
C5_WeeklyGap ==
    DayEnded =>
    \A i, j \in 1..Len(blocks) :
        (/\ i < j
         /\ blocks[i].task_type = "household"
         /\ blocks[j].task_type = "household"
         /\ blocks[i].task_id = blocks[j].task_id
         /\ IsWeekly(blocks[i].task_id))
        => DateOf(blocks[j].start_time) - DateOf(blocks[i].start_time) >= 7

\* a weekly task scheduled twice in one run, exactly a week apart
C5_Witness ==
    DayEnded /\
    \E i, j \in 1..Len(blocks) :
        /\ i < j
        /\ blocks[i].task_type = "household"
        /\ blocks[j].task_type = "household"
        /\ blocks[i].task_id = blocks[j].task_id
        /\ IsWeekly(blocks[i].task_id)
        /\ DateOf(blocks[j].start_time) - DateOf(blocks[i].start_time) = 7

\* C6: subtracting A then B, B then A, and A and B together in either
\* order give the same interval list.
C6_SubtractOrderIndependent ==
    pc = "subtracted" =>
        /\ sub_out.ab = sub_out.ba
        /\ sub_out.ab = sub_out.a_b
        /\ sub_out.ab = sub_out.b_a

\* a subtraction in which both A and B cut the free list and A has two blocks
C6_Witness ==
    /\ pc = "subtracted"
    /\ Len(sub_in.A) = 2 /\ Len(sub_in.B) = 1
    /\ RemoveScheduledBlocks(sub_in.S, sub_in.A) # sub_in.S
    /\ sub_out.ab # RemoveScheduledBlocks(sub_in.S, sub_in.A)
    /\ sub_out.ab # << >>

\* C7 as stated: no produced block of any task type is shorter than the
\* minimum block length.
C7_MinBlockAllTypes ==
    DayEnded =>
    \A i \in 1..Len(blocks) : Duration(blocks[i]) >= 30

TaskDuration(id) ==
    LET k == CHOOSE k \in 1..Len(household_tasks) : household_tasks[k].id = id
    IN  household_tasks[k].estimated_duration_minutes

\* C7 amended: project and assignment blocks are never shorter than the
\* minimum block length; a household block lasts exactly its task's
\* estimated duration, which may be shorter.
C7_MinBlockProjectAssignment ==
    DayEnded =>
    \A i \in 1..Len(blocks) :
        /\ blocks[i].task_type \in {"project", "assignment"}
              => Duration(blocks[i]) >= 30
        /\ blocks[i].task_type = "household"
              => Duration(blocks[i]) = TaskDuration(blocks[i].task_id)

\* a run with a household block shorter than the minimum and a project block
\* shorter than the 2-hour maximum
C7_Witness ==
    /\ pc = "done"
    /\ \E i \in 1..Len(blocks) :
          blocks[i].task_type = "household" /\ Duration(blocks[i]) < 30
    /\ \E i \in 1..Len(blocks) :
          blocks[i].task_type = "project" /\ Duration(blocks[i]) < 120

\* the base interval of a mode as the specification gives it
BaseInterval(d, work_hours_only) ==
    IF d % 7 >= 5 THEN <<d * 1440 + 9 * 60, d * 1440 + 21 * 60>>
    ELSE IF work_hours_only THEN <<d * 1440 + 8 * 60, d * 1440 + 16 * 60>>
    ELSE <<d * 1440 + 16 * 60, d * 1440 + 21 * 60>>

\* C8: the slot generator returns free intervals in chronological order,
\* pairwise non-overlapping, each at least the minimum block length long and
\* each inside the mode's base interval.
C8_SlotsWellFormed ==
    pc = "generated" =>
        /\ \A i \in 1..(Len(gen_out) - 1) : gen_out[i][2] <= gen_out[i + 1][1]
        /\ \A i \in 1..Len(gen_out) :
              /\ gen_out[i][2] - gen_out[i][1] >= 30
              /\ BaseInterval(gen_in.target_date, gen_in.work_hours_only)[1] <= gen_out[i][1]
              /\ gen_out[i][2] <= BaseInterval(gen_in.target_date, gen_in.work_hours_only)[2]

\* two events cut the day's slots, at least three slots are returned and a
\* piece shorter than the minimum was dropped
C8_Witness ==
    /\ pc = "generated"
    /\ Len(gen_in.events) = 2
    /\ Len(gen_out) >= 3
    /\ Len(SubtractEvents(
              SubtractPairs(BaseSlots(gen_in.target_date, IsWeekend(gen_in.target_date),
                                      gen_in.work_hours_only),
                            GetLifeNecessityBlocks(gen_in.target_date,
                                                   IsWeekend(gen_in.target_date))),
              gen_in.events)) > Len(gen_out)

\* C9 as stated: the returned list is chronological by start.
C9_ChronologicalByStart ==
    pc = "done" =>
        \A i \in 1..(Len(blocks) - 1) : blocks[i].start_time <= blocks[i + 1].start_time

\* C9 amended: the returned list is ordered by day: of two consecutive
\* blocks the earlier one's date is not after the later one's date.
C9_OrderedByDay ==
    DayEnded =>
    \A i \in 1..(Len(blocks) - 1) :
        DateOf(blocks[i].start_time) <= DateOf(blocks[i + 1].start_time)

\* a returned list over several days in which a weekday's evening block
\* precedes the same day's work-hour block
C9_Witness ==
    /\ pc = "done"
    /\ \E i \in 1..(Len(blocks) - 1) :
          /\ blocks[i].start_time > blocks[i + 1].start_time
          /\ DateOf(blocks[i].start_time) = DateOf(blocks[i + 1].start_time)
    /\ \E i \in 1..(Len(blocks) - 1) :
          DateOf(blocks[i].start_time) < DateOf(blocks[i + 1].start_time)

\* C10: every produced block has start < end and status SCHEDULED, and a
\* block, once produced, is never changed.
C10_BlocksScheduled ==
    /\ [](\A i \in 1..Len(blocks) :
             /\ blocks[i].start_time < blocks[i].end_time
             /\ blocks[i].status = "scheduled")
    /\ [][\A i \in 1..Len(blocks) :
             Len(blocks') >= i /\ blocks'[i] = blocks[i]]_vars

\* a finished run that produced blocks of all three task types
C10_Witness ==
    /\ pc = "done"
    /\ HasType(blocks, "project")
    /\ HasType(blocks, "assignment")
    /\ HasType(blocks, "household")

\* The run has filled the timing cache (lines 68-75 are done).
Analyzed == pc \notin {"analyze", "error"}

\* the fallback window, as the claims state it
AnytimeNineToTwentyOne ==
    [preferred_time |-> <<"anytime">>, earliest_hour |-> 9, latest_hour |-> 21]

\* the oracle lookup of task id fails: a timeout, an HTTP error, or a
\* response that is not a JSON object
LookupFailed(id) == oracle[id].outcome \in {"timeout", "http_error", "no_json"}

\* the positions of generate_schedule from which it takes a step
Positions ==
    { "analyze", "day", "wd_assignments", "wd_academic", "wd_household", "wd_work",
      "we_household", "we_assignments", "we_academic", "we_work" }

\* how far the run is from its return: the days left, and the passes left of
\* the day at hand
StepsLeft ==
    CASE pc = "analyze" -> 6 * (end_date + 1 - start_date) + 6
      [] pc = "day" -> 6 * (end_date + 1 - current_date) + 5
      [] pc \in {"wd_assignments", "we_household"} -> 6 * (end_date + 1 - current_date) + 4
      [] pc \in {"wd_academic", "we_assignments"} -> 6 * (end_date + 1 - current_date) + 3
      [] pc \in {"wd_household", "we_academic"} -> 6 * (end_date + 1 - current_date) + 2
      [] pc \in {"wd_work", "we_work"} -> 6 * (end_date + 1 - current_date) + 1
      [] OTHER -> 0

\* C11: when the oracle lookup of a household task fails (timeout, HTTP
\* error, malformed response) the task gets the fallback window {anytime,
\* 9, 21}, the run never ends in an error, and it runs to completion: it
\* is always at a position that takes a step or has returned, and every
\* step brings it nearer to its return.
C11_FallbackOnFailure ==
    /\ [](pc # "error")
    /\ [](Analyzed => \A id \in DOMAIN oracle :
              LookupFailed(id) => task_timing_cache[id] = AnytimeNineToTwentyOne)
    /\ [](pc \in Positions \cup {"done"} /\ StepsLeft >= 0)
    /\ [][StepsLeft' < StepsLeft]_vars

\* a finished run in which a task whose lookup failed was placed with the
\* fallback window, one of the lookups having met a response without JSON
C11_Witness ==
    /\ pc = "done"
    /\ \E id \in DOMAIN oracle :
         /\ LookupFailed(id)
         /\ task_timing_cache[id] = AnytimeNineToTwentyOne
         /\ \E i \in 1..Len(blocks) : blocks[i].task_id = id
    /\ \E id \in DOMAIN oracle : oracle[id].outcome = "no_json"

\* the defects the claim C12 lists, of a JSON response
HoursInvalid(r) ==
    \/ r.earliest_hour > r.latest_hour
    \/ r.earliest_hour < 0 \/ r.earliest_hour > 23
    \/ r.latest_hour < 0 \/ r.latest_hour > 23

FieldMissing(r) == r.fields # {"preferred_time", "earliest_hour", "latest_hour", "reasoning"}

NotOneOfFour(r) ==
    r.preferred_time \notin { <<"morning">>, <<"afternoon">>, <<"evening">>, <<"anytime">> }

Separated(r) == \E i \in 1..Len(r.preferred_time) : r.preferred_time[i] \in {"|", "/"}

\* C12 as stated: every oracle result with earliest > latest, an hour outside
\* 0..23, a missing field, or a preferred_time that is not one of the four
\* values is replaced by the whole fallback.
C12_InvalidReplaced ==
    Analyzed => \A id \in DOMAIN oracle :
        (oracle[id].outcome = "json"
            /\ (HoursInvalid(oracle[id]) \/ FieldMissing(oracle[id])
                    \/ NotOneOfFour(oracle[id])))
        => task_timing_cache[id] = AnytimeNineToTwentyOne

\* C12 amended: a result with earliest > latest, an hour outside 0..23, a
\* missing field, or a preferred_time that is not one of the four values and
\* holds no "|" or "/" is replaced by the whole fallback; a complete result
\* with valid hours whose preferred_time holds "|" or "/" is kept with
\* preferred_time "anytime" and its own hours.
C12_InvalidReplacedUnlessSeparated ==
    Analyzed => \A id \in DOMAIN oracle :
        oracle[id].outcome = "json" =>
            /\ (HoursInvalid(oracle[id]) \/ FieldMissing(oracle[id])
                    \/ (NotOneOfFour(oracle[id]) /\ ~ Separated(oracle[id])))
               => task_timing_cache[id] = AnytimeNineToTwentyOne
            /\ (~ HoursInvalid(oracle[id]) /\ ~ FieldMissing(oracle[id])
                    /\ Separated(oracle[id]))
               => task_timing_cache[id] =
                      [preferred_time |-> <<"anytime">>,
                       earliest_hour |-> oracle[id].earliest_hour,
                       latest_hour |-> oracle[id].latest_hour]

\* a finished run with a task whose result (hours 7..14) was rejected and
\* that was placed at 16:00 or later, and a task whose separated
\* preferred_time was kept with its hours
C12_Witness ==
    /\ pc = "done"
    /\ \E id \in DOMAIN oracle :
         /\ oracle[id].outcome = "json" /\ NotOneOfFour(oracle[id])
         /\ ~ Separated(oracle[id]) /\ oracle[id].latest_hour = 14
         /\ \E i \in 1..Len(blocks) :
               blocks[i].task_id = id /\ HourOf(blocks[i].start_time) >= 16
    /\ \E id \in DOMAIN oracle :
         /\ Separated(oracle[id]) /\ ~ HoursInvalid(oracle[id])
         /\ task_timing_cache[id].latest_hour = 14

\* C13: the session state does not carry over between calls: a second call
\* of generate_schedule on the same scheduler with the same inputs returns
\* the same blocks as the first, household blocks included.
C13_SecondCallSameBlocks ==
    (call_no = 2 /\ pc = "done") => blocks = first_blocks

\* a UserConfig that is missing, or whose work hours are not an interval
ConfigUnusable ==
    \/ ~ config.present
    \/ config.work_start_hour >= config.work_end_hour

\* C14: with a missing or invalid UserConfig the run ends in an error and
\* produces no blocks; it does not schedule with substitute work hours.
C14_NoRunWithoutConfig ==
    ConfigUnusable => (pc # "done" /\ blocks = << >> /\ day_blocks = << >>)

\* C18: the oracle is called at most once per task id (exactly once per id
\* of the household tasks once a fresh scheduler has filled its cache, and
\* not again in a later call on the same scheduler); no step after the cache
\* is filled calls it: sorting and slot checks read the cache.
C18_OracleOncePerTask ==
    /\ [](\A id \in DOMAIN oracle_calls : oracle_calls[id] <= 1)
    /\ [](Analyzed => \A i \in 1..Len(household_tasks) :
              /\ household_tasks[i].id \in DOMAIN oracle_calls
              /\ oracle_calls[household_tasks[i].id] = 1
              /\ household_tasks[i].id \in DOMAIN task_timing_cache)
    /\ [][pc # "analyze" => oracle_calls' = oracle_calls]_vars

\* the second call on a scheduler has returned, with two household tasks
\* analysed once each and household blocks placed in both calls
C18_Witness ==
    /\ call_no = 2 /\ pc = "done"
    /\ Len(household_tasks) = 2
    /\ \A i \in 1..2 : oracle_calls[household_tasks[i].id] = 1
    /\ HasType(first_blocks, "household")
    /\ HasType(blocks, "household")

\* C19: the engine works with the work hours of the UserConfig it was
\* constructed with: on a weekday every block of a work project lies within
\* [work_start_hour, work_end_hour) of the configuration, and the minimum
\* block length and the household buffer are the configuration's.
C19_ConfigGoverns ==
    (~ ConfigUnusable /\ DayEnded) =>
        /\ min_block_minutes = config.min_block_minutes
        /\ household_buffer_minutes = config.household_buffer_minutes
        /\ \A i \in 1..Len(blocks) :
              (blocks[i].task_type = "project"
                  /\ ~ IsWeekend(DateOf(blocks[i].start_time)))
              => /\ HourOf(blocks[i].start_time) >= config.work_start_hour
                 /\ blocks[i].end_time
                      <= DT(DateOf(blocks[i].start_time), config.work_end_hour, 0)

\* the scenario of C15: a weekday, work mode, one event from 10:00 to 11:00
C15_Scenario ==
    /\ pc = "generated"
    /\ ~ IsWeekend(gen_in.target_date)
    /\ gen_in.work_hours_only
    /\ gen_in.events = << [start_time |-> DT(gen_in.target_date, 10, 0),
                           end_time |-> DT(gen_in.target_date, 11, 0)] >>

C16_AllocationFormula ==
    pc # "analyze" =>
        /\ DOMAIN project_monthly_hours
              = { projects[i].id : i \in { j \in 1..Len(projects) :
                                             projects[j].source_adapter # "document_parser" } }
        /\ \A i \in 1..Len(projects) :
              projects[i].source_adapter # "document_parser" =>
                /\ project_monthly_hours[projects[i].id] = TargetMinutes(projects[i])
                /\ (projects[i].allocation_percentage = 25 /\ HorizonWeekdays = 5
                        /\ projects[i].total_hours_allocated - projects[i].hours_used >= 600)
                   => project_monthly_hours[projects[i].id] = 10 * 60

\* allocations of a Saturday-to-Saturday horizon: ten hours for the 25 percent
\* project, and the allowance left (140 minutes) for the 50 percent project
C16_Witness ==
    /\ pc = "day" /\ start_date = 5
    /\ "p1" \in DOMAIN project_monthly_hours /\ project_monthly_hours["p1"] = 600
    /\ "p2" \in DOMAIN project_monthly_hours /\ project_monthly_hours["p2"] = 140

\* the passes of a day, and the slot list the pass at hand is given
Passes == Positions \ {"analyze", "day"}

PassPool ==
    CASE pc = "wd_assignments" -> personal_slots
      [] pc = "wd_academic" -> RemoveScheduledBlocks(personal_slots, assignment_blocks)
      [] pc = "wd_household" -> RemoveScheduledBlocks(remaining_slots, academic_project_blocks)
      [] pc = "wd_work" -> GenerateAvailableSlots(current_date,
                               GetEventsForDay(external_events, current_date), FALSE, TRUE)
      [] pc = "we_household" -> personal_slots
      [] pc = "we_assignments" -> RemoveScheduledBlocks(personal_slots, household_blocks)
      [] pc = "we_academic" -> RemoveScheduledBlocks(remaining_slots, assignment_blocks)
      [] pc = "we_work" -> RemoveScheduledBlocks(remaining_slots, academic_project_blocks)
      [] OTHER -> << >>

\* C17: lack of capacity is not an error: the run never ends in an error, a
\* pass that is given no free slot emits no block and the run goes on, and
\* a run without projects, assignments and household tasks returns the
\* empty list.
C17_NoCapacityNoError ==
    /\ [](pc # "error")
    /\ []((pc = "done" /\ projects = << >> /\ assignments = << >>
              /\ household_tasks = << >>) => blocks = << >>)
    /\ [][(pc \in Passes /\ PassPool = << >>)
             => (day_blocks' = day_blocks /\ pc' \in Positions)]_vars

\* the work pass of the Tuesday taken by the whole-day event: a project is
\* waiting, no slot is free, and the day has no block
C17_Witness ==
    /\ pc = "wd_work" /\ current_date = 1
    /\ external_events # << >>
    /\ PassPool = << >>
    /\ project_monthly_hours # << >>
    /\ assignments # << >>
    /\ day_blocks = << >>

\* the thresholds as the claim C20 lists them
DaysRequired(recurrence) ==
    IF recurrence = "daily" THEN 1
    ELSE IF recurrence = "weekly" THEN 7
    ELSE IF recurrence = "biweekly" THEN 14
    ELSE IF recurrence = "monthly" THEN 30
    ELSE 7

\* C20: _should_schedule_task_today is true for a task never scheduled;
\* otherwise it is true exactly when the days since the last scheduling are
\* at least 1 (daily), 7 (weekly), 14 (biweekly), 30 (monthly), 7 (any other
\* value).  A daily task scheduled on day 1 is eligible on day 2, a weekly
\* task scheduled on day 1 is not eligible before day 8.
C20_RecurrenceTable ==
    pc = "admitted" =>
        LET id == adm_in.task.id
            last == adm_in.last_scheduled
        IN  /\ adm_out \in BOOLEAN
            /\ id \notin DOMAIN last => adm_out
            /\ id \in DOMAIN last =>
                  (adm_out <=> adm_in.target_date - last[id]
                                  >= DaysRequired(adm_in.task.recurrence))
            /\ (id \in DOMAIN last /\ last[id] = 1 /\ adm_in.task.recurrence = "daily"
                    /\ adm_in.target_date = 2) => adm_out
            /\ (id \in DOMAIN last /\ last[id] = 1 /\ adm_in.task.recurrence = "weekly"
                    /\ adm_in.target_date < 8) => ~ adm_out

\* a weekly task scheduled on day 1 becomes eligible on day 8
C20_Witness ==
    /\ pc = "admitted"
    /\ adm_in.task.recurrence = "weekly"
    /\ adm_in.last_scheduled = [id \in {"t"} |-> 1]
    /\ adm_in.target_date = 8
    /\ adm_out

\* the household pass has run on its own; its task with a given id, the
\* place of that task in the list given, and the width of its cached window
PassIndex(id) == CHOOSE i \in 1..Len(pass_in.tasks) : pass_in.tasks[i].id = id

PassTask(id) == pass_in.tasks[PassIndex(id)]

WindowWidth(id) ==
    pass_in.timing_cache[id].latest_hour - pass_in.timing_cache[id].earliest_hour

IsDailyBlock(b) == PassTask(b.task_id).recurrence = "daily"

\* C21: a household block is emitted for a task only in a slot whose start
\* hour h satisfies earliest_hour <= h < latest_hour of the task's cached
\* timing; a task with window 7 to 14 is rejected for a slot starting at
\* 18:00.
C21_BlockWithinWindow ==
    pc = "housed" =>
        /\ \A i \in 1..Len(pass_out.blocks) :
              LET b == pass_out.blocks[i]
                  timing == pass_in.timing_cache[b.task_id]
              IN  /\ timing.earliest_hour <= HourOf(b.start_time)
                  /\ HourOf(b.start_time) < timing.latest_hour
        /\ \A id \in DOMAIN pass_in.timing_cache :
              (pass_in.timing_cache[id].earliest_hour = 7
                  /\ pass_in.timing_cache[id].latest_hour = 14)
              => ~ TaskTimingMatchesSlot(PassTask(id), DT(pass_in.target_date, 18, 0),
                                         pass_in.timing_cache)

\* a weekday evening: the daily task with the morning window got no block
\* though it was due and came first, a task with the fallback window was
\* placed at 16:00
C21_Witness ==
    /\ pc = "housed"
    /\ pass_in.last_scheduled = << >>
    /\ Len(pass_in.tasks) >= 2
    /\ pass_in.tasks[1].recurrence = "daily"
    /\ pass_in.timing_cache[pass_in.tasks[1].id].latest_hour = 14
    /\ \A i \in 1..Len(pass_out.blocks) : pass_out.blocks[i].task_id # pass_in.tasks[1].id
    /\ \E i \in 1..Len(pass_out.blocks) : HourOf(pass_out.blocks[i].start_time) = 16

\* C22: within the daily group and within the periodic group the tasks are
\* attempted in ascending order of latest_hour - earliest_hour, ties in
\* input order: of two blocks of one group emitted on a day, the earlier
\* one starts earlier and belongs to the task with the narrower window, or
\* with the same width and the earlier place in the input.
C22_NarrowerWindowFirst ==
    pc = "housed" =>
        \A i, j \in 1..Len(pass_out.blocks) :
            LET a == pass_out.blocks[i]
                b == pass_out.blocks[j]
            IN  (i < j /\ IsDailyBlock(a) = IsDailyBlock(b)) =>
                    /\ a.start_time < b.start_time
                    /\ \/ WindowWidth(a.task_id) < WindowWidth(b.task_id)
                       \/ /\ WindowWidth(a.task_id) = WindowWidth(b.task_id)
                          /\ PassIndex(a.task_id) < PassIndex(b.task_id)

\* two blocks of one group, the earlier one for the task that comes later
\* in the input and has the narrower window
C22_Witness ==
    /\ pc = "housed"
    /\ \E i, j \in 1..Len(pass_out.blocks) :
         /\ i < j
         /\ IsDailyBlock(pass_out.blocks[i]) = IsDailyBlock(pass_out.blocks[j])
         /\ PassIndex(pass_out.blocks[i].task_id) > PassIndex(pass_out.blocks[j].task_id)
         /\ WindowWidth(pass_out.blocks[i].task_id) < WindowWidth(pass_out.blocks[j].task_id)
         /\ pass_out.blocks[i].start_time < pass_out.blocks[j].start_time

\* C27: per day the household pass emits at most 2 blocks for daily tasks;
\* tasks of any other recurrence get blocks only on Saturday and Sunday, at
\* most 2 per day; the pass emits at most 4 blocks; every block's task
\* passed the recurrence check for the date.
C27_HouseholdCaps ==
    pc = "housed" =>
        LET B == pass_out.blocks
            daily == { i \in 1..Len(B) : IsDailyBlock(B[i]) }
            other == { i \in 1..Len(B) : ~ IsDailyBlock(B[i]) }
        IN  /\ Cardinality(daily) <= 2
            /\ other # {} => pass_in.target_date % 7 \in {5, 6}
            /\ Cardinality(other) <= 2
            /\ Len(B) <= 4
            /\ \A i \in 1..Len(B) :
                  \/ B[i].task_id \notin DOMAIN pass_in.last_scheduled
                  \/ pass_in.target_date - pass_in.last_scheduled[B[i].task_id]
                        >= DaysRequired(PassTask(B[i].task_id).recurrence)

\* a Saturday with three periodic tasks due, all with the fallback window
\* and short enough for the first slot: two get a block
C27_Witness ==
    /\ pc = "housed"
    /\ pass_in.target_date % 7 = 5
    /\ Len(pass_in.tasks) = 3
    /\ \A i \in 1..3 :
         /\ pass_in.tasks[i].recurrence # "daily"
         /\ pass_in.timing_cache[pass_in.tasks[i].id].earliest_hour = 9
    /\ pass_in.last_scheduled = << >>
    /\ Len(pass_in.available_slots) = 3
    /\ Len(pass_out.blocks) = 2

\* the project pass has run on its own: the place of a project in the list
\* given, its deficit and its hours remaining when the pass began
ProjIndex(id) == CHOOSE i \in 1..Len(pass_in.projs) : pass_in.projs[i].id = id

ProjDeficit(id) == Get(pass_in.monthly_hours, id) - Get(pass_in.hours_scheduled, id)

ProjRemaining(id) ==
    pass_in.projs[ProjIndex(id)].total_hours_allocated
        - pass_in.projs[ProjIndex(id)].hours_used

ProjEligible(id) == ProjDeficit(id) > 0 /\ ProjRemaining(id) > 0

\* id comes before other in the order of service
ProjBefore(id, other) ==
    \/ ProjDeficit(id) > ProjDeficit(other)
    \/ ProjDeficit(id) = ProjDeficit(other) /\ ProjIndex(id) < ProjIndex(other)

\* the candidate served first
ProjFirst(id) ==
    /\ ProjEligible(id)
    /\ \A other \in TaskIds(pass_in.projs) \ {id} :
          ProjEligible(other) => ProjBefore(id, other)

RECURSIVE SlotsAfter(_, _)
SlotsAfter(slots, placed) ==
    IF placed = << >> \/ slots = << >> THEN slots
    ELSE LET slot_end == Head(slots)[2]
             task_end == Head(placed).end_time
         IN  SlotsAfter(IF slot_end - task_end >= min_block_minutes
                        THEN << <<task_end, slot_end>> >> \o Tail(slots)
                        ELSE Tail(slots),
                        Tail(placed))

\* C24: a project block starts at the start of the slot at the front of
\* the pool and lasts min(2 h, slot length, hours remaining, deficit); if
\* that is under 0.5 h no block is created and the slot stays at the front
\* unchanged; the part of the slot after the block goes back to the front
\* exactly when it is at least the minimum block length.
C24_ProjectBlock ==
    pc = "projected" =>
        /\ \A k \in 1..Len(pass_out.blocks) :
              LET b == pass_out.blocks[k]
                  before == SlotsAfter(pass_in.available_slots,
                                       SubSeq(pass_out.blocks, 1, k - 1))
              IN  /\ before # << >>
                  /\ b.start_time = Head(before)[1]
                  /\ Duration(b) >= MinProjectBlockMinutes
                  /\ Duration(b) =
                        Min2(Min2(MaxBlockMinutes, Head(before)[2] - Head(before)[1]),
                             Min2(ProjRemaining(b.task_id), ProjDeficit(b.task_id)))
        /\ pass_out.slots = SlotsAfter(pass_in.available_slots, pass_out.blocks)
        /\ (pass_out.blocks = << >>) => pass_out.slots = pass_in.available_slots

\* a block of 2 hours from a slot of 2 h 15 min whose 15 minutes are not
\* put back, in a pass where a candidate with a deficit under 0.5 h got none
C24_Witness ==
    /\ pc = "projected"
    /\ Len(pass_out.blocks) = 1
    /\ Duration(pass_out.blocks[1]) = MaxBlockMinutes
    /\ Len(pass_in.available_slots) = 2
    /\ Head(pass_in.available_slots)[2] = pass_out.blocks[1].end_time + 15
    /\ pass_out.slots = Tail(pass_in.available_slots)
    /\ \E id \in TaskIds(pass_in.projs) :
         /\ ProjEligible(id)
         /\ ProjDeficit(id) < MinProjectBlockMinutes

\* an academic project has hours remaining
AcademicWaiting ==
    \E i \in 1..Len(AcademicProjects) :
        AcademicProjects[i].total_hours_allocated - AcademicProjects[i].hours_used > 0

\* the pass at hand is given a slot of at least half an hour
HalfHourFree ==
    \E i \in 1..Len(PassPool) : PassPool[i][2] - PassPool[i][1] >= MinProjectBlockMinutes

\* C25: academic projects are placed by the same slot mechanics without
\* deficit tracking: on any day on which an academic project has hours
\* remaining and the academic pass is given a free personal slot of at
\* least 0.5 h, that pass emits a block for an academic project.
C25_AcademicBlockEmitted ==
    [][(pc \in {"wd_academic", "we_academic"} /\ AcademicWaiting /\ HalfHourFree)
          => (/\ academic_project_blocks' # << >>
              /\ \A i \in 1..Len(academic_project_blocks') :
                    academic_project_blocks'[i].task_id \in TaskIds(AcademicProjects))]_vars

\* block b lies within the hours [from, to) of its day
WithinHours(b, from, to) ==
    /\ DT(DateOf(b.start_time), from, 0) <= b.start_time
    /\ b.start_time < b.end_time
    /\ b.end_time <= DT(DateOf(b.start_time), to, 0)

IsWorkProjectBlock(b) == b.task_type = "project" /\ b.task_id \in TaskIds(WorkProjects)

\* the work-hour slots generated for the day of block b
WorkPoolOf(b) ==
    GenerateAvailableSlots(DateOf(b.start_time),
        GetEventsForDay(external_events, DateOf(b.start_time)), FALSE, TRUE)

\* C26: on a weekday every work-project block lies within
\* [work_start_hour, work_end_hour) and inside a slot of the work-hour pool
\* generated for that day, and every assignment, academic-project and
\* household block lies within [work_end_hour, 21:00).  (day_blocks holds
\* the blocks of the day in progress or just ended, so every block of the
\* run is in it at the end of its day.)
C26_WeekdayIntervals ==
    \A i \in 1..Len(day_blocks) :
        LET b == day_blocks[i]
            pool == WorkPoolOf(b)
        IN  weekday(DateOf(b.start_time)) < 5 =>
                IF IsWorkProjectBlock(b)
                THEN /\ WithinHours(b, work_start_hour, work_end_hour)
                     /\ \E k \in 1..Len(pool) :
                           pool[k][1] <= b.start_time /\ b.end_time <= pool[k][2]
                ELSE WithinHours(b, work_end_hour, 21)

\* the end of a weekday whose evening went to an assignment and a household
\* task, and whose work hours hold a project block from 8:00
C26_Witness ==
    /\ pc = "day"
    /\ \E i, j, k \in 1..Len(blocks) :
         /\ DateOf(blocks[i].start_time) = DateOf(blocks[j].start_time)
         /\ DateOf(blocks[i].start_time) = DateOf(blocks[k].start_time)
         /\ weekday(DateOf(blocks[i].start_time)) < 5
         /\ blocks[i].task_type = "assignment"
         /\ blocks[j].task_type = "household"
         /\ IsWorkProjectBlock(blocks[k])
         /\ blocks[k].start_time = DT(DateOf(blocks[k].start_time), work_start_hour, 0)

\* the assignment pass has run on its own: the place of an assignment in
\* the list given, its due date, and whether it is due within 7 days
AssignIndex(id) == CHOOSE i \in 1..Len(pass_in.assignments) : pass_in.assignments[i].id = id

DueOf(id) == pass_in.assignments[AssignIndex(id)].due_date

DueSoon(id) == DateOf(DueOf(id)) - pass_in.target_date <= 7

\* id comes before other in the order earliest due first, ties in input order
DueBefore(id, other) ==
    \/ DueOf(id) < DueOf(other)
    \/ DueOf(id) = DueOf(other) /\ AssignIndex(id) < AssignIndex(other)

\* C28: the assignment pass emits at most 2 blocks per day, each exactly
\* 2 hours long and starting at the start of a free personal slot (a slot
\* given to the pass, or what an earlier block of the pass left of one),
\* and an assignment gets at most one block per day.
C28_AssignmentBlocks ==
    pc = "assigned" =>
        /\ Len(pass_out.blocks) <= 2
        /\ \A k \in 1..Len(pass_out.blocks) :
              LET b == pass_out.blocks[k]
              IN  /\ Duration(b) = 120
                  /\ \/ \E i \in 1..Len(pass_in.available_slots) :
                           b.start_time = pass_in.available_slots[i][1]
                     \/ \E j \in 1..(k - 1) :
                           b.start_time = pass_out.blocks[j].end_time
                  /\ \E i \in 1..Len(pass_in.available_slots) :
                        /\ pass_in.available_slots[i][1] <= b.start_time
                        /\ b.end_time <= pass_in.available_slots[i][2]
        /\ \A j, k \in 1..Len(pass_out.blocks) :
              j # k => pass_out.blocks[j].task_id # pass_out.blocks[k].task_id

\* three assignments due within 7 days and six free hours: two blocks, the
\* second starting where the first ends, and two hours left free
C28_Witness ==
    /\ pc = "assigned"
    /\ Len(pass_in.assignments) = 3
    /\ \A i \in 1..3 : DueSoon(pass_in.assignments[i].id)
    /\ Len(pass_in.available_slots) = 2
    /\ Head(pass_in.available_slots)[2] - Head(pass_in.available_slots)[1] = 240
    /\ Len(pass_out.blocks) = 2
    /\ pass_out.blocks[2].start_time = pass_out.blocks[1].end_time
    /\ pass_out.slots = Tail(pass_in.available_slots)

\* C29: only assignments due within 7 days of the day being scheduled are
\* candidates, in order of due date, earliest first: an assignment gets a
\* block only if it is one of the two earliest-due candidates, and the
\* earlier-due one is offered the earlier slot.
C29_EarliestDueFirst ==
    pc = "assigned" =>
        /\ \A k \in 1..Len(pass_out.blocks) :
              LET id == pass_out.blocks[k].task_id
              IN  /\ DueSoon(id)
                  /\ Cardinality({ other \in TaskIds(pass_in.assignments) :
                                     DueSoon(other) /\ DueBefore(other, id) }) < 2
        /\ \A j, k \in 1..Len(pass_out.blocks) :
              j < k => /\ DueBefore(pass_out.blocks[j].task_id, pass_out.blocks[k].task_id)
                       /\ pass_out.blocks[j].start_time < pass_out.blocks[k].start_time
        /\ \A id \in TaskIds(pass_in.assignments) :
              (/\ DueSoon(id)
               /\ \A other \in TaskIds(pass_in.assignments) \ {id} :
                     DueSoon(other) => DueBefore(id, other)
               /\ pass_in.available_slots # << >>
               /\ Head(pass_in.available_slots)[2] - Head(pass_in.available_slots)[1] >= 120)
              => /\ pass_out.blocks # << >>
                 /\ pass_out.blocks[1].task_id = id
                 /\ pass_out.blocks[1].start_time = Head(pass_in.available_slots)[1]

\* day 8: three candidates, the one due on day 15 among them; the one due
\* first is second in the input and gets the first block, the one due on
\* day 15 gets none
C29_Witness ==
    /\ pc = "assigned"
    /\ pass_in.target_date = 8
    /\ Len(pass_in.assignments) = 3
    /\ \A i \in 1..3 : DueSoon(pass_in.assignments[i].id)
    /\ DateOf(pass_in.assignments[3].due_date) = 15
    /\ Len(pass_out.blocks) = 2
    /\ AssignIndex(pass_out.blocks[1].task_id) > AssignIndex(pass_out.blocks[2].task_id)
    /\ pass_out.blocks[1].start_time < pass_out.blocks[2].start_time

\* the passes whose pool goes on to the next pass of the day
HandingPasses ==
    {"wd_assignments", "wd_academic", "we_household", "we_assignments", "we_academic"}

\* the blocks placed by the pass that a step from a handing pass takes
PlacedByPass ==
    CASE pc \in {"wd_assignments", "we_assignments"} -> assignment_blocks'
      [] pc \in {"wd_academic", "we_academic"} -> academic_project_blocks'
      [] OTHER -> household_blocks'

InsideSome(s, slots) ==
    \E j \in 1..Len(slots) : slots[j][1] <= s[1] /\ s[2] <= slots[j][2]

SlotOf(b) ==
    CHOOSE i \in 1..Len(pass_in.available_slots) :
        /\ pass_in.available_slots[i][1] <= b.start_time
        /\ b.end_time <= pass_in.available_slots[i][2]

\* after block b and its buffer less than the minimum block length is left
\* of its slot
LeavesTooLittle(b) ==
    pass_in.available_slots[SlotOf(b)][2] - (b.end_time + household_buffer_minutes)
        < min_block_minutes

\* the index (from 1) of the current slot after the first k blocks
IndexAfter(k) ==
    1 + Cardinality({ j \in 1..k : LeavesTooLittle(pass_out.blocks[j]) })

\* C33: the household pass tries each task only against the slot at the
\* current index: every block is cut from the front of that slot, no task
\* gets two blocks, and the index advances only when a placed task leaves
\* less than the minimum block length in the slot; a task rejected for the
\* current slot is not tried against a later one.
C33_CurrentSlotOnly ==
    pc = "housed" =>
        /\ \A k \in 1..Len(pass_out.blocks) :
              LET b == pass_out.blocks[k]
              IN  /\ \E i \in 1..Len(pass_in.available_slots) :
                        /\ pass_in.available_slots[i][1] <= b.start_time
                        /\ b.end_time <= pass_in.available_slots[i][2]
                  /\ SlotOf(b) = IndexAfter(k - 1)
                  /\ b.start_time =
                        IF k > 1 /\ SlotOf(pass_out.blocks[k - 1]) = SlotOf(b)
                        THEN pass_out.blocks[k - 1].end_time + household_buffer_minutes
                        ELSE pass_in.available_slots[SlotOf(b)][1]
        /\ pass_out.slot_idx = IndexAfter(Len(pass_out.blocks))
        /\ \A j, k \in 1..Len(pass_out.blocks) :
              j # k => pass_out.blocks[j].task_id # pass_out.blocks[k].task_id
        /\ (Len(pass_in.tasks) = 1 /\ pass_in.available_slots # << >>
               /\ (HourOf(pass_in.available_slots[1][1])
                      < pass_in.timing_cache[pass_in.tasks[1].id].earliest_hour
                   \/ HourOf(pass_in.available_slots[1][1])
                      >= pass_in.timing_cache[pass_in.tasks[1].id].latest_hour))
            => pass_out.blocks = << >>

\* a weekday evening: a daily task that was due and has the window 18 to
\* 21 got no block, the pass stayed at the slot that starts at 16:00, and
\* the slot from 19:00 to 21:00, which the task fits, was never tried
C33_Witness ==
    /\ pc = "housed"
    /\ pass_in.last_scheduled = << >>
    /\ Len(pass_out.blocks) < MaxDailyPerDay
    /\ pass_out.slot_idx = 1
    /\ Len(pass_in.available_slots) = 2
    /\ HourOf(pass_in.available_slots[1][1]) = 16
    /\ HourOf(pass_in.available_slots[2][1]) = 19
    /\ \E i \in 1..Len(pass_in.tasks) :
         /\ pass_in.tasks[i].recurrence = "daily"
         /\ pass_in.timing_cache[pass_in.tasks[i].id].earliest_hour = 18
         /\ pass_in.tasks[i].estimated_duration_minutes + household_buffer_minutes <= 120
         /\ \A k \in 1..Len(pass_out.blocks) :
               pass_out.blocks[k].task_id # pass_in.tasks[i].id

\* C39: a household task is placed in a slot only if its duration plus
\* the household buffer of 15 minutes fits before the slot's end, and
\* between the end of a household block and the start of the next
\* household block of the day there are at least 15 minutes.
C39_BufferKept ==
    pc = "housed" =>
        /\ \A k \in 1..Len(pass_out.blocks) :
              \E i \in 1..Len(pass_in.available_slots) :
                  /\ pass_in.available_slots[i][1] <= pass_out.blocks[k].start_time
                  /\ pass_out.blocks[k].end_time + 15 <= pass_in.available_slots[i][2]
        /\ \A j, k \in 1..Len(pass_out.blocks) :
              j < k => pass_out.blocks[j].end_time + 15 <= pass_out.blocks[k].start_time
        /\ (Len(pass_in.tasks) = 1 /\ pass_in.available_slots # << >>
               /\ pass_in.tasks[1].estimated_duration_minutes + 15
                     > pass_in.available_slots[1][2] - pass_in.available_slots[1][1])
            => pass_out.blocks = << >>

\* two blocks cut from one slot, the second starting 15 minutes after the
\* end of the first
C39_Witness ==
    /\ pc = "housed"
    /\ Len(pass_out.blocks) >= 2
    /\ pass_out.blocks[2].start_time = pass_out.blocks[1].end_time + 15
    /\ pass_out.slot_idx = 1

\* the assignment is due on a day before the day being scheduled
Overdue(id) == DateOf(DueOf(id)) < pass_in.target_date

\* C35: the assignment pass has no lower bound on the due date: an overdue
\* assignment is still a candidate and, being earliest-due, comes before
\* the assignments not yet due: the earliest-due overdue assignment gets the
\* first block when the front slot holds 2 hours, and no block of an
\* assignment not yet due precedes a block of an overdue one.
C35_OverdueFirst ==
    pc = "assigned" =>
        /\ \A id \in TaskIds(pass_in.assignments) :
              (/\ Overdue(id)
               /\ \A other \in TaskIds(pass_in.assignments) \ {id} :
                     Overdue(other) => DueBefore(id, other)
               /\ pass_in.available_slots # << >>
               /\ Head(pass_in.available_slots)[2] - Head(pass_in.available_slots)[1] >= 120)
              => /\ pass_out.blocks # << >>
                 /\ pass_out.blocks[1].task_id = id
        /\ \A j, k \in 1..Len(pass_out.blocks) :
              (j < k /\ Overdue(pass_out.blocks[k].task_id))
                  => Overdue(pass_out.blocks[j].task_id)
        /\ \A id \in TaskIds(pass_in.assignments) :
              (/\ ~ Overdue(id)
               /\ Cardinality({ other \in TaskIds(pass_in.assignments) : Overdue(other) }) >= 2)
              => \A k \in 1..Len(pass_out.blocks) : pass_out.blocks[k].task_id # id

\* two overdue assignments that come last in the input get the two blocks
\* of the day, the assignment due in two days gets none
C35_Witness ==
    /\ pc = "assigned"
    /\ Len(pass_in.assignments) = 3
    /\ ~ Overdue(pass_in.assignments[1].id)
    /\ DueSoon(pass_in.assignments[1].id)
    /\ Len(pass_out.blocks) = 2
    /\ Overdue(pass_out.blocks[1].task_id)
    /\ Overdue(pass_out.blocks[2].task_id)
    /\ AssignIndex(pass_out.blocks[1].task_id) > AssignIndex(pass_out.blocks[2].task_id)

\* the dates the day loop has still to finish, and a measure of the steps
\* the run has still to take: six for each date left, less the passes
\* already made on the date at hand
DatesLeft == IF current_date > end_date THEN 0 ELSE end_date + 1 - current_date

LoopMeasure ==
    CASE pc = "analyze" -> 6 * DatesLeft + 6
      [] pc = "day" -> 6 * DatesLeft + 5
      [] pc \in {"wd_assignments", "we_household"} -> 6 * DatesLeft + 4
      [] pc \in {"wd_academic", "we_assignments"} -> 6 * DatesLeft + 3
      [] pc \in {"wd_household", "we_academic"} -> 6 * DatesLeft + 2
      [] pc \in {"wd_work", "we_work"} -> 6 * DatesLeft + 1
      [] OTHER -> 0

\* the step that ends a day
DayEnds == pc \in {"wd_work", "we_work"} /\ pc' = "day"

\* the step that begins a day
DayBegins == pc = "day" /\ pc' \in {"wd_assignments", "we_household"}

\* C31: generate_schedule terminates: every step lowers a measure that is
\* never negative, the day loop begins each date of [start_date, end_date]
\* once, in ascending order (the date goes up by one exactly when a day
\* ends, a day begins only on a date of the range, and the run returns only
\* when the date has passed end_date), every block lies on a date of the
\* range, and with start_date > end_date the result is the empty list.
C31_EachDateOnce ==
    /\ [](pc \in Positions \cup {"done"} /\ LoopMeasure >= 0)
    /\ [][LoopMeasure' < LoopMeasure]_vars
    /\ [][IF DayEnds THEN current_date' = current_date + 1
                      ELSE current_date' = current_date]_vars
    /\ [][DayBegins => (start_date <= current_date /\ current_date <= end_date)]_vars
    /\ [](pc = "analyze" => current_date = start_date /\ blocks = << >>)
    /\ [](pc = "done" => current_date = (IF start_date <= end_date
                                         THEN end_date + 1 ELSE start_date))
    /\ [](\A i \in 1..Len(blocks) :
             /\ start_date <= DateOf(blocks[i].start_time)
             /\ DateOf(blocks[i].end_time) <= end_date
             /\ DateOf(blocks[i].start_time) < current_date)
    /\ []((pc = "done" /\ start_date > end_date) => blocks = << >>)

\* a run from a Saturday to the Saturday after it or beyond has returned
\* with a block on its first and on its last date
C31_Witness ==
    /\ pc = "done"
    /\ start_date = 5 /\ end_date >= 12
    /\ \E i, j \in 1..Len(blocks) :
         /\ DateOf(blocks[i].start_time) = start_date
         /\ DateOf(blocks[j].start_time) = end_date

\* C32: in one project pass each project receives at most one block, so a
\* work project is scheduled for at most 2 hours per day, however large
\* its deficit and however much free work-hour capacity remains: among
\* the blocks of a day no project has two, and none is longer than 2 hours.
C32_OneBlockPerProject ==
    \A i, j \in 1..Len(day_blocks) :
        day_blocks[i].task_type = "project" =>
            /\ Duration(day_blocks[i]) <= 120
            /\ (day_blocks[j].task_type = "project"
                   /\ day_blocks[j].task_id = day_blocks[i].task_id) => i = j

\* the end of a weekday without events on which the only work project got
\* one block of 2 hours out of the 7 free work hours and is still 2 hours
\* or more behind its target
C32_Witness ==
    /\ pc = "day"
    /\ current_date > start_date
    /\ weekday(current_date - 1) < 5
    /\ external_events = << >>
    /\ Len(WorkProjects) = 1
    /\ Get(project_monthly_hours, WorkProjects[1].id)
           - Get(project_hours_scheduled, WorkProjects[1].id) >= 120
    /\ Cardinality({ i \in 1..Len(day_blocks) : day_blocks[i].task_type = "project" }) = 1
    /\ \E i \in 1..Len(day_blocks) :
         /\ day_blocks[i].task_type = "project"
         /\ Duration(day_blocks[i]) = 120

\* the range of the run holds no Monday-to-Friday date
NoWeekdayInRange == \A d \in start_date..end_date : weekday(d) >= 5

\* C38: when the horizon contains no Monday-to-Friday date every work
\* project's target is 0 and no work-project block is produced, whatever
\* free weekend capacity exists.
C38_WeekendOnlyNoWork ==
    (NoWeekdayInRange /\ pc # "analyze") =>
        /\ \A i \in 1..Len(WorkProjects) :
              /\ WorkProjects[i].id \in DOMAIN project_monthly_hours
              /\ project_monthly_hours[WorkProjects[i].id] = 0
        /\ \A i \in 1..Len(blocks) : blocks[i].task_type # "project"
        /\ \A i \in 1..Len(day_blocks) : day_blocks[i].task_type # "project"

\* a run over Saturday and Sunday has returned: a work project with hours
\* remaining, a slot of two hours or more left free on Sunday, no block
C38_Witness ==
    /\ pc = "done"
    /\ start_date = 5 /\ end_date = 6
    /\ Len(WorkProjects) = 1
    /\ WorkProjects[1].total_hours_allocated - WorkProjects[1].hours_used > 0
    /\ WorkProjects[1].allocation_percentage > 0
    /\ \E i \in 1..Len(remaining_slots) :
         remaining_slots[i][2] - remaining_slots[i][1] >= 120
    /\ blocks = << >>

\* the positions at which a project pass is about to run
ProjectPasses == {"wd_academic", "we_academic", "wd_work", "we_work"}

\* the pool of the pass at hand begins with a slot shorter than 0.5 hours
ShortFrontSlot ==
    /\ PassPool # << >>
    /\ Head(PassPool)[2] - Head(PassPool)[1] < MinProjectBlockMinutes

\* C34: in the project pass, when the first slot of the pool is shorter
\* than 0.5 hours, every candidate puts it back and no project block is
\* emitted from that pool that day, even when later slots are long enough,
\* and the pool is left as it was.
C34_ShortFrontSlotBlocksPass ==
    [][(pc \in ProjectPasses /\ ShortFrontSlot)
          => (/\ day_blocks' = day_blocks
              /\ pc \in {"wd_academic", "we_academic"} => academic_project_blocks' = << >>
              /\ pc # "wd_work" => remaining_slots' = PassPool)]_vars

\* the end of a Saturday: the household block from 9:00 to 11:40 left 20
\* minutes before noon at the front of the pool, five hours are free in the
\* afternoon, a work project is 2 hours or more behind, and the day has no
\* project block
C34_Witness ==
    /\ pc = "day"
    /\ current_date = start_date + 1
    /\ weekday(start_date) = 5
    /\ remaining_slots # << >>
    /\ Head(remaining_slots)[2] - Head(remaining_slots)[1] = 20
    /\ \E i \in 2..Len(remaining_slots) :
         remaining_slots[i][2] - remaining_slots[i][1] >= 120
    /\ \E i \in 1..Len(WorkProjects) :
         /\ Get(project_monthly_hours, WorkProjects[i].id)
               - Get(project_hours_scheduled, WorkProjects[i].id) >= 120
         /\ WorkProjects[i].total_hours_allocated - WorkProjects[i].hours_used >= 120
    /\ \E i \in 1..Len(day_blocks) : Duration(day_blocks[i]) = 160
    /\ \A i \in 1..Len(day_blocks) : day_blocks[i].task_type # "project"

\* the assignment pass is about to run: assignment i is a candidate of the
\* day, and the number of candidates that come before it
RunDueSoon(i) == DateOf(assignments[i].due_date) - current_date <= 7

RunRank(i) ==
    Cardinality({ j \in 1..Len(assignments) :
        /\ RunDueSoon(j)
        /\ \/ assignments[j].due_date < assignments[i].due_date
           \/ assignments[j].due_date = assignments[i].due_date /\ j < i })

\* the front slot of the pool holds 2 hours, and so does the front slot
\* after a 2-hour block has been cut from it
FrontHoldsOne ==
    PassPool # << >> /\ Head(PassPool)[2] - Head(PassPool)[1] >= 120

FrontHoldsTwo ==
    /\ FrontHoldsOne
    /\ IF Head(PassPool)[2] - Head(PassPool)[1] > 120
       THEN Head(PassPool)[2] - Head(PassPool)[1] >= 240
       ELSE Len(PassPool) >= 2 /\ PassPool[2][2] - PassPool[2][1] >= 120

\* the minutes scheduled for the task with the id given, in the result
ScheduledMinutes(id) ==
    120 * Cardinality({ k \in 1..Len(blocks) :
              blocks[k].task_type = "assignment" /\ blocks[k].task_id = id })

\* C36: there is no per-assignment hour accounting: whatever blocks an
\* assignment already has, on every day on which it is among the two
\* earliest-due candidates and the front slot at its turn holds 2 hours it
\* receives a new 2-hour block, so its total can exceed its
\* estimated_hours.
C36_BlockEveryDay ==
    [][(pc \in {"wd_assignments", "we_assignments"})
          => (\A i \in 1..Len(assignments) :
                (RunDueSoon(i) /\ \/ RunRank(i) = 0 /\ FrontHoldsOne
                                  \/ RunRank(i) = 1 /\ FrontHoldsTwo)
                => \E k \in 1..Len(assignment_blocks') :
                      /\ assignment_blocks'[k].task_id = assignments[i].id
                      /\ Duration(assignment_blocks'[k]) = 120
                      /\ DateOf(assignment_blocks'[k].start_time) = current_date
                      /\ k = RunRank(i) + 1)]_vars

\* a run has returned with three or more blocks for an assignment whose
\* estimated_hours are 2: more minutes scheduled than estimated
C36_Witness ==
    /\ pc = "done"
    /\ \E i \in 1..Len(assignments) :
         /\ assignments[i].estimated_hours = 120
         /\ ScheduledMinutes(assignments[i].id) >= 360
         /\ ScheduledMinutes(assignments[i].id) > assignments[i].estimated_hours

\* the household blocks of the result that belong to the task with the id
\* given
BlocksOfTask(id) ==
    { k \in 1..Len(blocks) : blocks[k].task_type = "household" /\ blocks[k].task_id = id }

\* C37: a household task with recurrence "none" is handled as a periodic
\* task with a 7-day threshold: it is scheduled on weekend days only, two
\* of its blocks are at least 7 days apart, and, alone in a run that begins
\* on a Saturday, it is scheduled on that Saturday and again on the
\* Saturday after it.
C37_NoneIsWeekly ==
    \A t \in 1..Len(household_tasks) :
        household_tasks[t].recurrence = "none" =>
            LET mine == BlocksOfTask(household_tasks[t].id)
            IN  /\ \A k \in mine : weekday(DateOf(blocks[k].start_time)) >= 5
                /\ \A j, k \in mine :
                      j < k => DateOf(blocks[k].start_time)
                                 - DateOf(blocks[j].start_time) >= 7
                /\ (pc # "analyze" /\ weekday(start_date) = 5
                       /\ current_date > start_date + 7)
                    => /\ \E k \in mine : DateOf(blocks[k].start_time) = start_date
                       /\ \E k \in mine : DateOf(blocks[k].start_time) = start_date + 7

\* a run has returned with two blocks for the task with recurrence "none"
C37_Witness ==
    /\ pc = "done"
    /\ \E t \in 1..Len(household_tasks) :
         /\ household_tasks[t].recurrence = "none"
         /\ Cardinality(BlocksOfTask(household_tasks[t].id)) = 2

====
